---- MODULE Spec2Model ----
(***************************************************************************)
(* A model of multipatch_analysis/database/database.py:                    *)
(*   - the streaming table export (TableReadThread and the copy loop of     *)
(*     bake_sqlite): one producer thread, one consumer, a bounded queue;    *)
(*   - the engine / session manager (init_engines, dispose_engines,         *)
(*     get_engines, Session, default_session);                              *)
(*   - TableGroup.create_tables / drop_tables;                              *)
(*   - the loops of bake_sqlite over the tables, and the operations that    *)
(*     open a read-only session of their own;                               *)
(* and of the pipeline modules (pipeline/multipatch/experiment.py,          *)
(* pipeline/opto/opto_experiment.py, pipeline/multipatch/cortical_location  *)
(* .py, pipeline/multipatch/pulse_response.py):                             *)
(*   - ready_jobs, dependent_job_ids, job_records, create_db_entries;       *)
(*   - the job execution driver that calls them, alone or in two worker    *)
(*     processes, and the registry of the modules.  Their code              *)
(*     (DatabasePipelineModule, the pipeline) is not part of the sources at *)
(*     hand; they are modelled from sections 3 to 5 of the specification.   *)
(* and of tools/pair_analysis_list.py: the loop that starts one analysis    *)
(* subprocess per pair id, two at a time.                                   *)
(* Each part has its own specification; the variables of the other parts    *)
(* stay at their idle values.                                               *)
(***************************************************************************)
EXTENDS Integers, Sequences, FiniteSets, TLC

\* ------------------------------------------------------------------ bounds
\* Largest number of rows the source table starts with (ids 1..n).
MaxRows == 5
\* Largest chunksize passed to TableReadThread.
MaxChunk == 3
\* Number of statements the concurrent writer process commits during one export.
MaxWrites == 1

\* Number of job ids of the dependency module (slices).
MaxDeps == 1
\* Largest modification time of a raw source and largest finish time of a
\* dependency record that readiness is evaluated on.
MaxTime == 2
\* Largest number of raw experiment sources discovery finds.
MaxSources == 2

\* ------------------------------------------------------- program constants
\* queue.Queue(maxsize=5)
QueueMaxsize == 5

\* Python's None (the end-of-table sentinel, an absent engine, an absent max id)
\* and a value that is not None: a variable that may hold None holds None or
\* Some(x), and Val gives x back.
None == <<>>

Some(x) == <<x>>

Val(v) == v[1]

VARIABLES
    \* --- streaming export
    source,      \* the source table: a set of rows [id, val]
    writes,      \* statements committed so far by the concurrent writer
    snapshot,    \* history: the source table when max_id was read
    chunksize,   \* TableReadThread.chunksize
    max_id,      \* TableReadThread.max_id
    queue,       \* TableReadThread.queue
    ppc,         \* position of the producer thread (TableReadThread.run)
    idx,         \* position of run's for loop in range(0, max_id, chunksize)
    records,     \* run's local `records`
    queries,     \* history: the id ranges <<lo, hi>> queried so far
    pushed,      \* history: every item put on the queue so far
    cpc,         \* position of the consumer (__iter__ driven by bake_sqlite)
    recs,        \* __iter__'s local `recs`
    yielded,     \* history: the rows __iter__ has yielded
    dest,        \* rows inserted in the destination table by write_session
    \* --- engine / session manager
    db_address_ro,  \* the form of the read-only address: its scheme
    db_address_rw,  \* None when config.synphys_db_host_rw is None
    pid,            \* os.getpid() of the process the model follows
    engine_ro,      \* module global: None or Some(engine)
    engine_rw,      \* module global: None or Some(engine)
    engine_pid,     \* module global: None or Some(pid)
    sessionmaker_ro, \* _sessionmaker_ro: None or Some(the engine it is bound to)
    sessionmaker_rw, \* _sessionmaker_rw: None or Some(the engine it is bound to)
    creator,        \* history: creator[e] is the pid that created engine e
    options,        \* options[e]: the keyword options engine e was created with
    disposed,       \* the engines on which dispose() was called
    sessions,       \* sessions[s]: the session objects created so far
    default_session, \* _default_session: None or Some(session)
    in_txn,         \* the sessions that hold an open transaction
    last,           \* history: the last call of the engine / session manager
    \* --- TableGroup
    schemas,        \* TableGroup.schemas: the group's table names, in order
    db_tables,      \* the tables present in the database (table_names())
    tg_last,        \* history: the last TableGroup call and the statement it issued
    \* --- pipeline modules
    module,         \* the name of the pipeline module that is followed
    finished,       \* finished_jobs() of the module's dependency: job id -> record
    sources,        \* the raw experiment sources discovery finds, in its order
    lims,           \* what the LIMS / database lookups of a job give
    rj,             \* history: the outcome of the last ready_jobs() call
    results,        \* the module's result records: job id -> None or a record
    db_rows,        \* the committed rows of the tables
    pending,        \* the rows added / changed in the open write session
    run,            \* the driver: its position, its batch, the job it runs
    now,            \* the clock: it advances when the dependency finishes a job
    fails,          \* the jobs whose create_db_entries raises
    dj,             \* history: the outcome of the last dependent_job_ids() call
    first_rows,     \* history: the rows of a job after its first successful run
    rerun,          \* history: the jobs that succeeded again after a drop
    written,        \* history: the rows the last committed run of a job wrote
    last_drop,      \* history: the last drop_jobs call
    used,           \* the number of events from outside a run so far
    workers,        \* the worker processes: their jobs, position, write session
    \* --- module registry
    registry,       \* the registered modules: name -> its dependencies
    reg_last,       \* history: the last call of the registry and its outcome
    \* --- bake_sqlite
    bake_schemas,   \* the number of tables of each module's table group
    bake,           \* bake_sqlite: its position, its loop variables, its commits
    \* --- pair_analysis_list
    pal             \* the script: its position, its input, its subprocesses

exportVars == <<source, writes, snapshot, chunksize, max_id, queue, ppc, idx,
                records, queries, pushed, cpc, recs, yielded, dest>>

engineVars == <<db_address_ro, db_address_rw, pid, engine_ro, engine_rw,
                engine_pid, sessionmaker_ro, sessionmaker_rw, creator, options,
                disposed, sessions, default_session, in_txn, last>>

tableVars == <<schemas, db_tables, tg_last>>

\* the variables of the pipeline modules (readiness, job handlers, driver)
pipelineVars == <<module, finished, sources, lims, rj, results, db_rows, pending,
                  run, now, fails, dj, first_rows, rerun, written, last_drop,
                  used>>

\* the worker processes that run jobs side by side
workerVars == <<workers>>

registryVars == <<registry, reg_last>>

bakeVars == <<bake_schemas, bake>>

toolVars == <<pal>>

vars == <<exportVars, engineVars, tableVars, pipelineVars, workerVars,
          registryVars, bakeVars, toolVars>>

\* --------------------------------------------------------------- helpers
Row(k, v) == [id |-> k, val |-> v]

Ids(table) == {r.id : r \in table}

MaxOf(S) == CHOOSE x \in S : \A y \in S : y <= x

\* func.max(table.id): NULL (None) for an empty table
MaxIdQuery(table) == IF table = {} THEN None ELSE Some(MaxOf(Ids(table)))

\* Python's range(start, stop, step) for step > 0, as a sequence
RangeLen(start, stop, step) ==
    IF stop <= start THEN 0 ELSE (stop - start + step - 1) \div step

Range(start, stop, step) ==
    [k \in 1..RangeLen(start, stop, step) |-> start + (k - 1) * step]

\* the for loop of run: range(0, self.max_id, chunksize)
ChunkStarts == Range(0, Val(max_id), chunksize)

\* session.query(*all_columns).filter((table.id >= i) & (table.id < i+chunksize)).all()
\* on a session of the read-only engine: it reads the table as it is now
ChunkQuery(table, i, size) == {r \in table : r.id >= i /\ r.id < i + size}

\* a queue built without maxsize never blocks put
PutUnbounded(q) == TRUE

\* queue.Queue(maxsize=5).put blocks while the queue holds maxsize items

CanPut(q) == Len(q) < QueueMaxsize

\* ------------------------------------------- the parts a specification leaves idle
\* no export is under way
IdleExport ==
    /\ source = {}
    /\ chunksize = 1
    /\ writes = 0
    /\ snapshot = {}
    /\ max_id = None
    /\ queue = <<>>
    /\ ppc = "idle"
    /\ idx = 0
    /\ records = None
    /\ queries = <<>>
    /\ pushed = <<>>
    /\ cpc = "idle"
    /\ recs = None
    /\ yielded = {}
    /\ dest = {}

NoTableCall ==
    [op |-> "none", result |-> "none", table |-> None, stmts |-> <<>>,
     pre_tables |-> {}, given |-> FALSE, bind |-> "none"]

\* no call of a TableGroup was made; the group is empty
IdleTables ==
    /\ schemas = <<>>
    /\ db_tables = {}
    /\ tg_last = NoTableCall

NoCall ==
    [op |-> "none", readonly |-> FALSE, forked |-> FALSE, pre_ro |-> None,
     pre_rw |-> None, result |-> "none", session |-> None,
     used_default_session |-> FALSE, raised |-> FALSE, given |-> None,
     positional |-> FALSE, created |-> FALSE, rolled_back |-> None]

\* the module before init_engines() ran; the engine manager is not called
IdleEngine ==
    /\ db_address_ro = "postgresql"
    /\ db_address_rw = None
    /\ pid = 1
    /\ engine_ro = None
    /\ engine_rw = None
    /\ engine_pid = None
    /\ sessionmaker_ro = None
    /\ sessionmaker_rw = None
    /\ creator = <<>>
    /\ options = <<>>
    /\ disposed = {}
    /\ sessions = <<>>
    /\ default_session = None
    /\ in_txn = {}
    /\ last = NoCall

\* no pipeline module is followed
IdleReadiness ==
    /\ module = "none"
    /\ finished = <<>>
    /\ sources = <<>>
    /\ lims = <<>>
    /\ rj = None

NoPending == [adds |-> {}, updates |-> {}]

IdleRun ==
    [pc |-> "idle", job |-> 0, step |-> 0, todo |-> {}, batch |-> {},
     order |-> <<>>, stopped |-> FALSE]

\* no driver runs
IdleDriver ==
    /\ results = <<>>
    /\ db_rows = {}
    /\ pending = NoPending
    /\ run = IdleRun
    /\ now = 1
    /\ fails = {}
    /\ dj = None
    /\ first_rows = <<>>
    /\ rerun = {}
    /\ written = <<>>
    /\ last_drop = None
    /\ used = 0

IdlePipeline == IdleReadiness /\ IdleDriver

\* no worker process runs
IdleWorkers == workers = <<>>

NoRegistryCall ==
    [op |-> "none", module |-> 0, dependencies |-> {}, result |-> "none",
     order |-> <<>>]

\* no module is registered
IdleRegistry ==
    /\ registry = <<>>
    /\ reg_last = NoRegistryCall

NoBake ==
    [pc |-> "idle", table |-> 0, reader |-> "none", sentinel |-> FALSE,
     batches |-> 0, recs |-> 0, i_bound |-> FALSE, yielded |-> 0,
     inserted |-> 0, commits |-> <<>>, analyzed |-> 0,
     analyze_committed |-> FALSE]

\* bake_sqlite is not called
IdleBake ==
    /\ bake_schemas = <<>>
    /\ bake = NoBake

\* pair_analysis_list before it is started
NoTool ==
    [pc |-> "idle", argv |-> 0, procs |-> <<>>, running |-> {}, launched |-> 0]

IdleTool == pal = NoTool

IdleOthers == IdleWorkers /\ IdleRegistry /\ IdleBake /\ IdleTool

\* ------------------------------------------------------- streaming export
InitExport ==
    /\ \E n \in 0..MaxRows : source = {Row(k, 0) : k \in 1..n}
    /\ chunksize \in 1..MaxChunk
    /\ writes = 0
    /\ snapshot = {}
    /\ max_id = None
    /\ queue = <<>>
    /\ ppc = "new"
    /\ idx = 0
    /\ records = None
    /\ queries = <<>>
    /\ pushed = <<>>
    /\ cpc = "new"
    /\ recs = None
    /\ yielded = {}
    /\ dest = {}

\* TableReadThread.__init__: read the max id, start the thread; bake_sqlite then
\* enters its for loop over the reader
Construct ==
    /\ ppc = "new"
    /\ max_id' = MaxIdQuery(source)
    /\ snapshot' = source
    /\ ppc' = "start"
    /\ cpc' = "get"
    /\ UNCHANGED <<engineVars, tableVars, pipelineVars,
                   workerVars, registryVars, bakeVars, toolVars>>
    /\ UNCHANGED <<source, writes, chunksize, queue, idx, records, queries,
                   pushed, recs, yielded, dest>>

\* run, up to the first evaluation of the loop: range(0, None, chunksize) raises
\* TypeError and the thread dies; otherwise the loop starts or is empty
ProducerStart ==
    /\ ppc = "start"
    /\ IF max_id = None
         THEN ppc' = "dead" /\ idx' = idx
         ELSE /\ idx' = 1
              /\ ppc' = IF Len(ChunkStarts) >= 1 THEN "query" ELSE "sentinel"
    /\ UNCHANGED <<engineVars, tableVars, pipelineVars,
                   workerVars, registryVars, bakeVars, toolVars>>
    /\ UNCHANGED <<source, writes, snapshot, chunksize, max_id, queue, records,
                   queries, pushed, cpc, recs, yielded, dest>>

\* records = query.all() for the chunk starting at i
ProducerQuery ==
    /\ ppc = "query"
    /\ LET i == ChunkStarts[idx] IN
         /\ records' = Some(ChunkQuery(source, i, chunksize))
         /\ queries' = Append(queries, <<i, i + chunksize>>)
    /\ ppc' = "put"
    /\ UNCHANGED <<engineVars, tableVars, pipelineVars,
                   workerVars, registryVars, bakeVars, toolVars>>
    /\ UNCHANGED <<source, writes, snapshot, chunksize, max_id, queue, idx,
                   pushed, cpc, recs, yielded, dest>>

\* self.queue.put(records), then the next iteration of the loop or its end
ProducerPut ==
    /\ ppc = "put"
    /\ CanPut(queue)
    /\ queue' = Append(queue, records)
    /\ pushed' = Append(pushed, records)
    /\ idx' = idx + 1
    /\ ppc' = IF idx + 1 <= Len(ChunkStarts) THEN "query" ELSE "sentinel"
    /\ UNCHANGED <<engineVars, tableVars, pipelineVars,
                   workerVars, registryVars, bakeVars, toolVars>>
    /\ UNCHANGED <<source, writes, snapshot, chunksize, max_id, records,
                   queries, cpc, recs, yielded, dest>>

\* a run that ends its loop without self.queue.put(None)
ProducerSkipSentinel ==
    /\ ppc = "sentinel"
    /\ ppc' = "close"
    /\ UNCHANGED <<engineVars, tableVars, pipelineVars,
                   workerVars, registryVars, bakeVars, toolVars>>
    /\ UNCHANGED <<source, writes, snapshot, chunksize, max_id, queue, idx,
                   records, queries, pushed, cpc, recs, yielded, dest>>

\* self.queue.put(None)
ProducerPutSentinel ==
    /\ ppc = "sentinel"
    /\ CanPut(queue)
    /\ queue' = Append(queue, None)
    /\ pushed' = Append(pushed, None)
    /\ ppc' = "close"
    /\ UNCHANGED <<engineVars, tableVars, pipelineVars,
                   workerVars, registryVars, bakeVars, toolVars>>
    /\ UNCHANGED <<source, writes, snapshot, chunksize, max_id, idx, records,
                   queries, cpc, recs, yielded, dest>>

\* session.rollback(); session.close(); the thread ends
ProducerClose ==
    /\ ppc = "close"
    /\ ppc' = "done"
    /\ UNCHANGED <<engineVars, tableVars, pipelineVars,
                   workerVars, registryVars, bakeVars, toolVars>>
    /\ UNCHANGED <<source, writes, snapshot, chunksize, max_id, queue, idx,
                   records, queries, pushed, cpc, recs, yielded, dest>>

\* recs = self.queue.get(): blocks on an empty queue; None ends the loop
ConsumerGet ==
    /\ cpc = "get"
    /\ queue # <<>>
    /\ recs' = Head(queue)
    /\ queue' = Tail(queue)
    /\ cpc' = IF Head(queue) = None THEN "commit" ELSE "yield"
    /\ UNCHANGED <<engineVars, tableVars, pipelineVars,
                   workerVars, registryVars, bakeVars, toolVars>>
    /\ UNCHANGED <<source, writes, snapshot, chunksize, max_id, ppc, idx,
                   records, queries, pushed, yielded, dest>>

\* for rec in recs: yield rec, and the body of bake_sqlite's loop for each:
\* write_session.execute(table.__table__.insert(rec))
ConsumerYield ==
    /\ cpc = "yield"
    /\ yielded' = yielded \cup Val(recs)
    /\ dest' = dest \cup Val(recs)
    /\ cpc' = "get"
    /\ UNCHANGED <<engineVars, tableVars, pipelineVars,
                   workerVars, registryVars, bakeVars, toolVars>>
    /\ UNCHANGED <<source, writes, snapshot, chunksize, max_id, queue, ppc,
                   idx, records, queries, pushed, recs>>

\* after the loop: print("committing %d rows" % i) raises NameError when the loop
\* body never ran (i is unbound); otherwise write_session.commit() and
\* read_session.rollback()
ConsumerCommit ==
    /\ cpc = "commit"
    /\ cpc' = IF yielded = {} THEN "error" ELSE "done"
    /\ UNCHANGED <<engineVars, tableVars, pipelineVars,
                   workerVars, registryVars, bakeVars, toolVars>>
    /\ UNCHANGED <<source, writes, snapshot, chunksize, max_id, queue, ppc,
                   idx, records, queries, pushed, recs, yielded, dest>>

\* Another process commits one statement on the source table while the export
\* is set up or running: an insert (next serial id), an update or a delete.
NextSerial(table) == IF table = {} THEN 1 ELSE MaxOf(Ids(table)) + 1

ConcurrentWrite ==
    /\ writes < MaxWrites
    /\ cpc \in {"new", "get", "yield"}
    /\ writes' = writes + 1
    /\ \/ source' = source \cup {Row(NextSerial(source), 0)}
       \/ \E r \in source : source' = (source \ {r}) \cup {Row(r.id, r.val + 1)}
       \/ \E r \in source : source' = source \ {r}
    /\ UNCHANGED <<engineVars, tableVars, pipelineVars,
                   workerVars, registryVars, bakeVars, toolVars>>
    /\ UNCHANGED <<snapshot, chunksize, max_id, queue, ppc, idx, records,
                   queries, pushed, cpc, recs, yielded, dest>>

Producer ==
    \/ ProducerStart
    \/ ProducerQuery
    \/ ProducerPut
    \/ ProducerPutSentinel
    \/ ProducerClose

Consumer ==
    \/ ConsumerGet
    \/ ConsumerYield
    \/ ConsumerCommit

NextExport ==
    \/ Construct
    \/ Producer
    \/ Consumer
    \/ ConcurrentWrite

InitSpecExport == InitExport /\ IdleEngine /\ IdleTables /\ IdlePipeline /\ IdleOthers

SpecExport == InitSpecExport /\ [][NextExport]_vars

\* The two threads are scheduled by the interpreter: each keeps running while
\* it has a step to take.
FairSpecExport ==
    /\ SpecExport
    /\ WF_vars(Construct)
    /\ WF_vars(Producer)
    /\ WF_vars(Consumer)

\* ------------------------------------------------ streaming export: claims
\* the consumer's loop over the reader has ended
LoopEnded == cpc \in {"commit", "done", "error"}

\* every id from 1 up to and including max_id lies in a queried range
RangesCover ==
    \A k \in 1..Val(max_id) : \E n \in 1..Len(queries) :
        queries[n][1] <= k /\ k < queries[n][2]

\* the rows of the data batches put on the queue so far
PushedRows == UNION {Val(pushed[k]) : k \in {n \in 1..Len(pushed) : pushed[n] # None}}

\* C1: at most QueueMaxsize (5) items are ever buffered between run and
\* __iter__, and with 5 buffered the producer cannot take a step: it is blocked
\* in put until the consumer pops one.
C1_Backpressure ==
    /\ Len(queue) <= QueueMaxsize
    /\ (Len(queue) = QueueMaxsize /\ ppc \in {"put", "sentinel"}) => ~ENABLED Producer

\* C1 witness: five batches are buffered and the producer holds a sixth
C1_Witness == Len(queue) = QueueMaxsize /\ ppc = "put" /\ None \notin {queue[k] : k \in 1..Len(queue)}

\* C2: when the table is not written during the export, the ranges queried
\* cover every id up to and including max_id and the destination ends with
\* exactly the rows of the source; 2500 rows in chunks of 1000 are read by the
\* three queries starting at 0, 1000 and 2000.
C2_CompleteCopy ==
    /\ Range(0, 2500, 1000) = <<0, 1000, 2000>>
    /\ (LoopEnded /\ writes = 0) => (RangesCover /\ dest = snapshot)

\* None is the last item put, if it was put
SentinelLast == \A k \in 1..Len(pushed) : pushed[k] = None => k = Len(pushed)

\* a producer past its put of None has put every data batch and then None
SentinelPut ==
    ppc \in {"close", "done"} =>
        /\ Len(pushed) = Len(ChunkStarts) + 1
        /\ pushed[Len(pushed)] = None

\* a consumer whose loop ended holds no batch and has yielded every row put
YieldedAll == LoopEnded => (recs = None /\ yielded = PushedRows /\ queue = <<>>)

\* C3: the sentinel is put at most once and nothing is put after it, a producer
\* that finished has put it after all its data batches, a consumer whose loop
\* ended has yielded every row put before the sentinel, and unless the producer
\* dies the consumer's loop eventually ends.
C3_SentinelEndsLoop ==
    /\ [](SentinelLast /\ SentinelPut /\ YieldedAll)
    /\ <>(ppc = "dead" \/ LoopEnded)

\* C3 witness: an export of several batches has ended on the sentinel
C3_Witness == cpc = "done" /\ ppc = "done" /\ Len(pushed) >= 3

\* C4: a consumer is never left waiting on the queue by a producer that died
\* without putting the sentinel (stated as: no state in which the producer is
\* dead, the consumer waits in get and neither can ever take a step).
C4_NoOrphanedConsumer ==
    ~(ppc = "dead" /\ cpc = "get" /\ queue = <<>> /\ ~ENABLED (Producer \/ Consumer))

\* C5: the copy is a snapshot: whatever is written to the source during the
\* export, once the loop has ended over ranges that cover every id the
\* destination holds the rows the source held when max_id was read.
C5_Snapshot == (LoopEnded /\ RangesCover) => dest = snapshot

\* --------------------------------------------------- engine / session manager
\* Most forks followed, most engines and most sessions created in one behaviour.
MaxPid == 2

MaxEngines == 4

MaxSessions == 2

\* the module globals the engine functions read and assign
Globals ==
    [engine_ro |-> engine_ro, engine_rw |-> engine_rw, engine_pid |-> engine_pid,
     sessionmaker_ro |-> sessionmaker_ro, sessionmaker_rw |-> sessionmaker_rw,
     creator |-> creator, options |-> options, disposed |-> disposed]

SetGlobals(g) ==
    /\ engine_ro' = g.engine_ro
    /\ engine_rw' = g.engine_rw
    /\ engine_pid' = g.engine_pid
    /\ sessionmaker_ro' = g.sessionmaker_ro
    /\ sessionmaker_rw' = g.sessionmaker_rw
    /\ creator' = g.creator
    /\ options' = g.options
    /\ disposed' = g.disposed

\* a dispose that forgets the engines and keeps engine_pid
DisposeKeepsPid(g) ==
    [g EXCEPT !.disposed = @ \cup {Val(e) : e \in {g.engine_ro, g.engine_rw} \ {None}},
              !.engine_ro = None, !.sessionmaker_ro = None,
              !.engine_rw = None, !.sessionmaker_rw = None]

\* dispose_engines()
dispose_engines(g) ==
    LET g1 == IF g.engine_ro # None
                THEN [g EXCEPT !.disposed = @ \cup {Val(g.engine_ro)},
                               !.engine_ro = None,
                               !.sessionmaker_ro = None]
                ELSE g
        g2 == IF g1.engine_rw # None
                THEN [g1 EXCEPT !.disposed = @ \cup {Val(g1.engine_rw)},
                                !.engine_rw = None,
                                !.sessionmaker_rw = None]
                ELSE g1
    IN  [g2 EXCEPT !.engine_pid = None]

\* create_engine(address, **opts): a new engine object, created by process p
create_engine(g, p, opts) ==
    [g EXCEPT !.creator = Append(@, p), !.options = Append(@, opts)]

NewEngine(g) == Some(Len(g.creator) + 1)

\* the two address forms: a networked server and an embedded single-file store
AddressForms == {"postgresql", "sqlite"}

\* db_address_ro.startswith('postgres')
IsPostgres(address) == address = "postgresql"

\* the keyword options of create_engine; a key that is not passed is None
EngineOptions(pool_size, max_overflow, isolation_level) ==
    [pool_size |-> pool_size, max_overflow |-> max_overflow,
     isolation_level |-> isolation_level]

\* opts_ro and opts_rw of init_engines
opts_ro(address) ==
    IF IsPostgres(address)
      THEN EngineOptions(Some(10), Some(40), Some("AUTOCOMMIT"))
      ELSE EngineOptions(None, None, None)

opts_rw(address) ==
    IF IsPostgres(address)
      THEN EngineOptions(Some(10), Some(40), None)
      ELSE EngineOptions(None, None, None)

\* init_engines() in process p
init_engines(g, p) ==
    LET d  == dispose_engines(g)
        g1 == [create_engine(d, p, opts_ro(db_address_ro))
                  EXCEPT !.engine_ro = NewEngine(d)]
        g2 == IF db_address_rw # None
                THEN [create_engine(g1, p, opts_rw(db_address_ro))
                         EXCEPT !.engine_rw = NewEngine(g1)]
                ELSE g1
    IN  [g2 EXCEPT !.engine_pid = Some(p)]

\* a get_engines that does not compare process ids
ForkIgnored(g, p) == FALSE

\* os.getpid() != engine_pid
ForkDetected(g, p) == Some(p) # g.engine_pid

\* get_engines() in process p: the globals it leaves; it returns their
\* engine_ro and engine_rw
get_engines(g, p) ==
    LET g1 == IF ForkDetected(g, p) THEN dispose_engines(g) ELSE g
    IN  IF g1.engine_ro = None THEN init_engines(g1, p) ELSE g1

\* a Session that does not check for the read-write engine
WriteAccessAssumed(g) == FALSE

\* engine_rw is None, in Session(readonly=False)
NoWriteAccess(g) == g.engine_rw = None

\* Session(readonly) in process p: the globals it leaves, and the session it
\* returns (None when it raises RuntimeError)
SessionCall(g, p, readonly) ==
    LET g1 == get_engines(g, p) IN
    IF readonly
      THEN LET g2 == IF g1.sessionmaker_ro = None
                       THEN [g1 EXCEPT !.sessionmaker_ro = Some(g1.engine_ro)]
                       ELSE g1
           IN  [g |-> g2, result |-> "session",
                session |-> Some([bind |-> Val(g2.sessionmaker_ro), readonly |-> TRUE])]
      ELSE IF NoWriteAccess(g1)
             THEN [g |-> g1, result |-> "RuntimeError", session |-> None]
             ELSE LET g2 == IF g1.sessionmaker_rw = None
                              THEN [g1 EXCEPT !.sessionmaker_rw = Some(g1.engine_rw)]
                              ELSE g1
                  IN  [g |-> g2, result |-> "session",
                       session |-> Some([bind |-> Val(g2.sessionmaker_rw), readonly |-> FALSE])]

\* a call may create two engines: keep the number of engines bounded
EnginesLeft == Len(creator) + 2 <= MaxEngines

\* config.synphys_db_host_rw is set or not; the module is imported, which runs
\* init_engines() once
InitEngine ==
    /\ db_address_ro \in AddressForms
    /\ db_address_rw \in {None, Some("rw")}
    /\ pid = 1
    /\ LET g0 == [engine_ro |-> None, engine_rw |-> None, engine_pid |-> None,
                  sessionmaker_ro |-> None, sessionmaker_rw |-> None,
                  creator |-> <<>>, options |-> <<>>, disposed |-> {}]
           g  == init_engines(g0, 1)
       IN  /\ engine_ro = g.engine_ro
           /\ engine_rw = g.engine_rw
           /\ engine_pid = g.engine_pid
           /\ sessionmaker_ro = g.sessionmaker_ro
           /\ sessionmaker_rw = g.sessionmaker_rw
           /\ creator = g.creator
           /\ options = g.options
           /\ disposed = g.disposed
    /\ sessions = <<>>
    /\ default_session = None
    /\ in_txn = {}
    /\ last = NoCall

\* os.fork(): the model follows the child, which has a new pid and a copy of
\* every global
Fork ==
    /\ pid < MaxPid
    /\ pid' = pid + 1
    /\ last' = [NoCall EXCEPT !.op = "fork"]
    /\ UNCHANGED <<db_address_ro, db_address_rw, engine_ro, engine_rw,
                   engine_pid, sessionmaker_ro, sessionmaker_rw, creator, options,
                   disposed, sessions, default_session, in_txn>>
    /\ UNCHANGED <<exportVars, tableVars, pipelineVars,
                   workerVars, registryVars, bakeVars, toolVars>>

\* a call of get_engines()
CallGetEngines ==
    /\ EnginesLeft
    /\ LET g == get_engines(Globals, pid) IN
         /\ SetGlobals(g)
         /\ last' = [NoCall EXCEPT !.op = "get_engines",
                                   !.forked = (Some(pid) # engine_pid),
                                   !.pre_ro = engine_ro,
                                   !.pre_rw = engine_rw,
                                   !.result = <<g.engine_ro, g.engine_rw>>]
    /\ UNCHANGED <<db_address_ro, db_address_rw, pid, sessions, default_session, in_txn>>
    /\ UNCHANGED <<exportVars, tableVars, pipelineVars,
                   workerVars, registryVars, bakeVars, toolVars>>

\* a call of dispose_engines() (as reset_db makes)
CallDisposeEngines ==
    /\ SetGlobals(dispose_engines(Globals))
    /\ last' = [NoCall EXCEPT !.op = "dispose_engines"]
    /\ UNCHANGED <<db_address_ro, db_address_rw, pid, sessions, default_session, in_txn>>
    /\ UNCHANGED <<exportVars, tableVars, pipelineVars,
                   workerVars, registryVars, bakeVars, toolVars>>

\* a call of init_engines() (as reset_db makes)
CallInitEngines ==
    /\ EnginesLeft
    /\ SetGlobals(init_engines(Globals, pid))
    /\ last' = [NoCall EXCEPT !.op = "init_engines"]
    /\ UNCHANGED <<db_address_ro, db_address_rw, pid, sessions, default_session, in_txn>>
    /\ UNCHANGED <<exportVars, tableVars, pipelineVars,
                   workerVars, registryVars, bakeVars, toolVars>>

\* a call of Session(readonly)
CallSession ==
    /\ EnginesLeft
    /\ Len(sessions) < MaxSessions
    /\ \E readonly \in BOOLEAN :
         LET r == SessionCall(Globals, pid, readonly) IN
           /\ SetGlobals(r.g)
           /\ sessions' = IF r.session = None THEN sessions
                          ELSE Append(sessions, Val(r.session))
           /\ last' = [NoCall EXCEPT !.op = "Session",
                                     !.readonly = readonly,
                                     !.forked = (Some(pid) # engine_pid),
                                     !.result = r.result,
                                     !.session = IF r.session = None THEN None
                                                 ELSE Some(Len(sessions) + 1)]
    /\ UNCHANGED <<db_address_ro, db_address_rw, pid, default_session, in_txn>>
    /\ UNCHANGED <<exportVars, tableVars, pipelineVars,
                   workerVars, registryVars, bakeVars, toolVars>>

\* a wrapper that rolls back only when fn returned
RollbackOnReturn(used_default_session, raised) == used_default_session /\ ~raised

\* finally: if used_default_session: get_default_session().rollback()
RollsBack(used_default_session, raised) == used_default_session

\* a wrapper that puts the default session in place of any session
AlwaysDefault(given, positional) == TRUE

\* `kwds.get('session', None) is None`: the caller passed no session, or None,
\* or passed its session as a positional argument
UsesDefault(given, positional) == given = None \/ positional

\* a call of a function decorated with default_session: the caller passes a
\* session (by keyword or by position) or none; fn uses its session (which opens
\* a transaction on it) and returns or raises.  With a session passed by
\* position fn(*args, **kwds) gets `session` twice and raises TypeError before
\* its body runs.
CallWrapped ==
    /\ EnginesLeft
    /\ \E given \in {None} \cup {Some(n) : n \in 1..Len(sessions)},
          positional, raised \in BOOLEAN :
         /\ positional => (given # None /\ raised)
         /\ LET used_default_session == UsesDefault(given, positional)
                \* get_default_session(): Session(readonly=True) on first use
                create == used_default_session /\ default_session = None
                r == SessionCall(Globals, pid, TRUE)
                dflt == IF create THEN Some(Len(sessions) + 1) ELSE default_session
                session == IF used_default_session THEN dflt ELSE given
                opened == IF positional THEN {} ELSE {Val(session)}
                rolls == RollsBack(used_default_session, raised)
            IN
              /\ create => Len(sessions) < MaxSessions
              /\ IF create
                   THEN /\ SetGlobals(r.g)
                        /\ sessions' = Append(sessions, Val(r.session))
                        /\ default_session' = dflt
                   ELSE UNCHANGED <<engine_ro, engine_rw, engine_pid, sessionmaker_ro,
                                    sessionmaker_rw, creator, options, disposed,
                                    sessions, default_session>>
              /\ in_txn' = IF rolls THEN (in_txn \cup opened) \ {Val(dflt)}
                            ELSE in_txn \cup opened
              /\ last' = [NoCall EXCEPT !.op = "wrapped",
                                        !.used_default_session = used_default_session,
                                        !.raised = raised,
                                        !.result = IF raised THEN "raise" ELSE "return",
                                        !.session = session,
                                        !.given = given,
                                        !.positional = positional,
                                        !.created = create,
                                        !.rolled_back = IF rolls THEN dflt ELSE None]
    /\ UNCHANGED <<db_address_ro, db_address_rw, pid>>
    /\ UNCHANGED <<exportVars, tableVars, pipelineVars,
                   workerVars, registryVars, bakeVars, toolVars>>

NextEngine ==
    \/ Fork
    \/ CallGetEngines
    \/ CallDisposeEngines
    \/ CallInitEngines
    \/ CallSession
    \/ CallWrapped

InitSpecEngine == IdleExport /\ InitEngine /\ IdleTables /\ IdlePipeline /\ IdleOthers

SpecEngine == InitSpecEngine /\ [][NextEngine]_vars

\* ------------------------------------------- engine / session manager: claims
\* C6: a get_engines() call leaves engine_pid at the current pid and returns
\* engines that this process created and that are not disposed; when the pid
\* differed from engine_pid (a fork), the engines held before the call are
\* disposed and are not the ones returned.
C6_ForkSafety ==
    last.op = "get_engines" =>
        /\ engine_pid = Some(pid)
        /\ last.result = <<engine_ro, engine_rw>>
        /\ engine_ro # None
        /\ \A e \in {engine_ro, engine_rw} \ {None} :
               creator[Val(e)] = pid /\ Val(e) \notin disposed
        /\ last.forked =>
               \A e \in {last.pre_ro, last.pre_rw} \ {None} :
                   Val(e) \in disposed /\ e \notin {engine_ro, engine_rw}

\* C6 witness: get_engines() was called in a forked child that inherited a
\* read-only and a read-write engine
C6_Witness ==
    /\ last.op = "get_engines"
    /\ last.forked
    /\ pid > 1
    /\ last.pre_ro # None
    /\ last.pre_rw # None
    /\ creator[Val(last.pre_ro)] # pid

\* C7: with no read-write address configured no read-write session factory
\* ever exists, Session(readonly=False) raises the RuntimeError and returns no
\* session, and Session(readonly=True) returns a read-only session bound to the
\* current read-only engine.
C7_NoWriteAccess ==
    db_address_rw = None =>
        /\ sessionmaker_rw = None
        /\ engine_rw = None
        /\ last.op = "Session" =>
              IF last.readonly
                THEN /\ last.result = "session"
                     /\ last.session # None
                     /\ sessions[Val(last.session)] = [bind |-> engine_ro, readonly |-> TRUE]
                     /\ engine_ro # None
                ELSE /\ last.result = "RuntimeError"
                     /\ last.session = None

\* C7 witness: Session(readonly=False) was called after a fork with no
\* read-write address configured
C7_Witness ==
    /\ db_address_rw = None
    /\ last.op = "Session"
    /\ ~last.readonly
    /\ last.forked
    /\ pid > 1

\* C8: a decorated function called without a session got the default session,
\* which is a read-only one; after the call that session holds no open
\* transaction, whether fn returned or raised, and what fn raised reached the
\* caller.
C8_AmbientSession ==
    (last.op = "wrapped" /\ last.used_default_session) =>
        /\ default_session # None
        /\ last.session = default_session
        /\ sessions[Val(default_session)].readonly
        /\ Val(default_session) \notin in_txn
        /\ last.result = IF last.raised THEN "raise" ELSE "return"

\* C8 witness: the decorated function raised while using the default session
C8_Witness ==
    /\ last.op = "wrapped"
    /\ last.used_default_session
    /\ last.raised
    /\ last.result = "raise"

\* ------------------------------------------------------------------ TableGroup
\* Number of table names there are; a group declares some of them, in an order.
MaxTables == 3

TableNames == 1..MaxTables

Elems(q) == {q[n] : n \in 1..Len(q)}

\* the key orders an OrderedDict of schemas can have: no key twice
SchemaOrders ==
    {q \in UNION {[1..n -> TableNames] : n \in 0..MaxTables} :
        \A a, b \in 1..Len(q) : a # b => q[a] # q[b]}

\* a drop_tables that names every table of the group
AllDeclared(group, tables) == group

\* drops: [k for k in self.schemas if k in engine_rw.table_names()]
PresentTables(group, tables) == SelectSeq(group, LAMBDA k : k \in tables)

\* a create_tables that checks nothing without write access
NoneMissing(group, tables) == <<>>

\* the tables of the group for which `k not in table_names()`, in order
MissingTables(group, tables) == SelectSeq(group, LAMBDA k : k \notin tables)

\* a TableGroup with some schemas, a database with some tables, and the engines
\* as import leaves them (with or without a read-write engine)
InitTables ==
    /\ schemas \in SchemaOrders
    /\ db_tables \in SUBSET TableNames
    /\ tg_last = NoTableCall

\* TableGroup.drop_tables(): engine_rw.table_names() raises AttributeError when
\* engine_rw is None and the loop runs at all
CallDropTables ==
    /\ IF schemas # <<>> /\ engine_rw = None
         THEN /\ tg_last' = [NoTableCall EXCEPT !.op = "drop_tables",
                                                !.result = "AttributeError",
                                                !.pre_tables = db_tables]
              /\ UNCHANGED db_tables
         ELSE LET drops == PresentTables(schemas, db_tables) IN
              /\ tg_last' = [NoTableCall EXCEPT
                                !.op = "drop_tables",
                                !.result = "return",
                                !.pre_tables = db_tables,
                                !.stmts = IF Len(drops) = 0 THEN <<>>
                                          ELSE <<[op |-> "drop table cascade",
                                                  tables |-> drops]>>]
              /\ db_tables' = db_tables \ Elems(drops)
    /\ UNCHANGED <<schemas, engineVars, exportVars, pipelineVars,
                   workerVars, registryVars, bakeVars, toolVars>>

\* TableGroup.create_tables(): without engine_rw it only looks for the tables;
\* with it, create_tables(tables) calls get_engines() and creates the tables
\* that do not exist (metadata.create_all)
CallCreateTables ==
    /\ IF engine_rw = None
         THEN LET missing == MissingTables(schemas, db_tables) IN
              /\ tg_last' = [NoTableCall EXCEPT
                                !.op = "create_tables",
                                !.result = IF missing = <<>> THEN "return" ELSE "Exception",
                                !.table = IF missing = <<>> THEN None ELSE Some(missing[1]),
                                !.pre_tables = db_tables]
              /\ UNCHANGED <<db_tables, engineVars>>
         ELSE LET missing == MissingTables(schemas, db_tables) IN
              /\ EnginesLeft
              /\ SetGlobals(get_engines(Globals, pid))
              /\ tg_last' = [NoTableCall EXCEPT
                                !.op = "create_tables",
                                !.result = "return",
                                !.pre_tables = db_tables,
                                !.stmts = [n \in 1..Len(missing) |->
                                              [op |-> "create table",
                                               tables |-> <<missing[n]>>]]]
              /\ db_tables' = db_tables \cup Elems(missing)
              /\ UNCHANGED <<db_address_ro, db_address_rw, pid, sessions,
                             default_session, in_txn, last>>
    /\ UNCHANGED <<schemas, exportVars, pipelineVars,
                   workerVars, registryVars, bakeVars, toolVars>>

\* another table group's tables are created or dropped
OtherGroupChange ==
    /\ \E k \in TableNames \ Elems(schemas) :
         db_tables' = IF k \in db_tables THEN db_tables \ {k} ELSE db_tables \cup {k}
    /\ tg_last' = NoTableCall
    /\ UNCHANGED <<schemas, engineVars, exportVars, pipelineVars,
                   workerVars, registryVars, bakeVars, toolVars>>

\* create_tables(tables, engine): `engine_rw` is assigned in the function, so it
\* is a local name, bound only by `if engine is None: _, engine_rw =
\* get_engines()`.  ORMBase.metadata.create_all(bind=engine_rw, tables=tables)
\* reads it: UnboundLocalError when the caller passed an engine, and with
\* bind=None (no read-write engine) the unbound metadata raises
\* UnboundExecutionError.  Otherwise the tables that do not exist are created
\* on engine_rw.
create_tables(g, p, tables, given, present) ==
    IF given
      THEN [g |-> g, result |-> "UnboundLocalError", bind |-> "none", stmts |-> <<>>]
      ELSE LET g1 == get_engines(g, p) IN
           IF g1.engine_rw = None
             THEN [g |-> g1, result |-> "UnboundExecutionError", bind |-> "none",
                   stmts |-> <<>>]
             ELSE LET missing == MissingTables(tables, present) IN
                  [g |-> g1, result |-> "return", bind |-> "engine_rw",
                   stmts |-> [n \in 1..Len(missing) |->
                                 [op |-> "create table", tables |-> <<missing[n]>>]]]

\* every table a statement list creates
Created(stmts) == UNION {Elems(stmts[n].tables) : n \in 1..Len(stmts)}

\* a call of create_tables(tables, engine) with the tables of the group, with
\* the engine of the caller (as bake_sqlite passes sqlite_engine) or without
CallCreateTablesOn ==
    /\ EnginesLeft
    /\ \E given \in BOOLEAN :
         LET r == create_tables(Globals, pid, schemas, given, db_tables) IN
           /\ SetGlobals(r.g)
           /\ tg_last' = [NoTableCall EXCEPT !.op = "create_tables(tables, engine)",
                                             !.result = r.result,
                                             !.pre_tables = db_tables,
                                             !.given = given,
                                             !.bind = r.bind,
                                             !.stmts = r.stmts]
           /\ db_tables' = IF r.bind = "engine_rw" THEN db_tables \cup Created(r.stmts)
                           ELSE db_tables
    /\ UNCHANGED <<db_address_ro, db_address_rw, pid, sessions, default_session,
                   in_txn, last>>
    /\ UNCHANGED <<schemas, exportVars, pipelineVars,
                   workerVars, registryVars, bakeVars, toolVars>>

NextTables ==
    \/ CallDropTables
    \/ CallCreateTables
    \/ CallCreateTablesOn
    \/ OtherGroupChange

InitSpecTables == IdleExport /\ InitEngine /\ InitTables /\ IdlePipeline /\ IdleOthers

SpecTables == InitSpecTables /\ [][NextTables]_vars

\* -------------------------------------------------------- TableGroup: claims
\* C9: create_tables() without a read-write engine issues no statement and
\* changes no table; it returns iff every table of the group exists, and
\* otherwise raises the exception that names a table of the group that is
\* missing.
C9_CreateReadOnly ==
    (tg_last.op = "create_tables" /\ engine_rw = None) =>
        /\ tg_last.stmts = <<>>
        /\ db_tables = tg_last.pre_tables
        /\ (tg_last.result = "return") <=> (Elems(schemas) \subseteq db_tables)
        /\ tg_last.result # "return" =>
              /\ tg_last.result = "Exception"
              /\ tg_last.table # None
              /\ Val(tg_last.table) \in Elems(schemas) \ db_tables

\* C9 witness: the check failed on a group of which one table exists and one
\* does not
C9_Witness ==
    /\ tg_last.op = "create_tables"
    /\ engine_rw = None
    /\ tg_last.result = "Exception"
    /\ Elems(schemas) \cap db_tables # {}

\* what drop_tables is to do: with `want` the declared tables that were
\* present, exactly those are gone, by one statement that names each once and
\* nothing else, and by no statement when there are none
DropsExactly(want) ==
    /\ db_tables = tg_last.pre_tables \ want
    /\ want = {} => tg_last.stmts = <<>>
    /\ want # {} =>
          /\ Len(tg_last.stmts) = 1
          /\ Elems(tg_last.stmts[1].tables) = want
          /\ Len(tg_last.stmts[1].tables) = Cardinality(want)

DepJobs == 1..MaxDeps

Times == 1..MaxTime

\* One value of finished_jobs(): the pair (finish time, success).  The success
\* column holds True, False or no value.
DepRecord(t, s) == [mtime |-> Some(t), success |-> s]

SuccessValues == {None, Some(TRUE), Some(FALSE)}

DepRecords == {DepRecord(t, s) : t \in Times, s \in SuccessValues}

\* finished_jobs() of the dependency: finished[d] is None when the dict has no
\* key d, and Some(record) otherwise
FinishedMaps == [DepJobs -> {None} \cup {Some(r) : r \in DepRecords}]

\* A raw experiment source (a pipettes.yml under a slice directory, a row of the
\* opto csv): loading it raises, or it gives the slice timestamp it refers to
\* and its last modification time.  The k-th source found has job id k.
Unreadable == [ok |-> FALSE, slice_ts |-> 1, mtime |-> 1]

Readable(s, t) == [ok |-> TRUE, slice_ts |-> s, mtime |-> t]

SourceItems == {Unreadable} \cup {Readable(s, t) : s \in DepJobs, t \in Times}

SourceLists == UNION {[1..n -> SourceItems] : n \in 0..MaxSources}

\* What cortical_location's lookups of one experiment give: layer polygons, no
\* polygons or no DAPI image (AssertionError), a ValueError, any other exception
\* of the LIMS queries, or no Experiment row with that ext_id.
LimsOutcomes == {"polygons", "no_polygons", "ValueError", "error", "no_row"}

Max2(a, b) == IF a >= b THEN a ELSE b

\* a dependency time that forgets the dependency's finish time
RawTimeOnly(raw_data_mtime, slice_mtime) == raw_data_mtime

\* max(raw_data_mtime, slice_mtime)
DepTime(raw_data_mtime, slice_mtime) == Max2(raw_data_mtime, slice_mtime)

\* Experiment(site_path=site_path, verify=False), expt.last_modification_time or
\* expt.slice_timestamp raises
LoadRaises(expt) == ~expt.ok

\* a readiness test that lets a failed dependency record pass
BlocksMissingOnly(rec) == rec.mtime = None

\* `if slice_mtime is None or slice_success is False: continue`
SliceBlocks(rec) == rec.mtime = None \/ rec.success = Some(FALSE)

\* An OrderedDict is the sequence of its <<key, value>> items, in iteration
\* order.
Keys(od) == [n \in 1..Len(od) |-> od[n][1]]

\* the mapping an OrderedDict holds, without its order
Mapping(od) ==
    [k \in {od[n][1] : n \in 1..Len(od)} |->
        od[CHOOSE n \in 1..Len(od) : od[n][1] = k][2]]

\* an assignment that puts the item first
SetItemFirst(od, k, v) == <<<<k, v>>>> \o SelectSeq(od, LAMBDA item : item[1] # k)

\* ready[k] = v: a new key goes last, a key already present keeps its place
\* (d is the dictionary before the assignment, evaluated once)
SetItem(od, k, v) ==
    CHOOSE new \in
        {IF \E n \in 1..Len(d) : d[n][1] = k
           THEN [n \in 1..Len(d) |-> IF d[n][1] = k THEN <<k, v>> ELSE d[n]]
           ELSE Append(d, <<k, v>>) : d \in {od}} : TRUE

\* the outcome of a ready_jobs() call: the mapping it returned and the order in
\* which the mapping iterates
Returned(ready) ==
    CHOOSE r \in {[raised |-> FALSE, ready |-> Mapping(d), order |-> Keys(d)] :
                      d \in {ready}} : TRUE

Raised == [raised |-> TRUE, ready |-> <<>>, order |-> <<>>]

\* ExperimentPipelineModule.ready_jobs: the loop over the sources.
\* finished_slices.get(slice_ts, None) gives None for a slice without record and
\* unpacking None raises TypeError, which the try catches like a failed load.
RECURSIVE ExperimentReadyLoop(_, _, _, _)
ExperimentReadyLoop(fin, ymls, i, ready) ==
    IF i > Len(ymls) THEN Returned(ready)
    ELSE LET expt == ymls[i] IN
         IF LoadRaises(expt) \/ fin[expt.slice_ts] = None
           THEN ExperimentReadyLoop(fin, ymls, i + 1, ready)
         ELSE LET rec == Val(fin[expt.slice_ts]) IN
              IF SliceBlocks(rec)
                THEN ExperimentReadyLoop(fin, ymls, i + 1, ready)
              ELSE ExperimentReadyLoop(fin, ymls, i + 1,
                       SetItem(ready, i, DepTime(expt.mtime, Val(rec.mtime))))

\* finished_slices.get('%.3f'%slice_ts, (None, None))
OptoSliceRecord(fin, slice_ts) ==
    IF fin[slice_ts] = None THEN [mtime |-> None, success |-> None]
    ELSE Val(fin[slice_ts])

\* OptoExperimentPipelineModule.ready_jobs: the loop over expts['expt_list'];
\* the value kept for a job is its 'dep_time'
RECURSIVE OptoReadyLoop(_, _, _, _)
OptoReadyLoop(fin, expts, i, ready) ==
    IF i > Len(expts) THEN Returned(ready)
    ELSE LET expt == expts[i] IN
         IF LoadRaises(expt)
           THEN OptoReadyLoop(fin, expts, i + 1, ready)
         ELSE LET rec == OptoSliceRecord(fin, expt.slice_ts) IN
              IF SliceBlocks(rec)
                THEN OptoReadyLoop(fin, expts, i + 1, ready)
              ELSE OptoReadyLoop(fin, expts, i + 1,
                       SetItem(ready, i, DepTime(expt.mtime, Val(rec.mtime))))

\* `if success is not True: continue`
NotSucceeded(rec) == rec.success # Some(TRUE)

\* q.all()[0] on an empty result raises IndexError; it is not inside the try
RowLookupRaises(outcome) == outcome = "no_row"

\* `except (AssertionError, ValueError): continue`
LookupSkips(outcome) == outcome \in {"no_polygons", "ValueError"}

\* any other exception of get_lims_info / query_for_layer_polygons leaves the try
LookupRaises(outcome) == outcome = "error"

\* CortexLocationPipelineModule.ready_jobs: the loop over expts.items()
RECURSIVE CorticalReadyLoop(_, _, _, _)
CorticalReadyLoop(fin, lookups, j, ready) ==
    IF j > MaxDeps THEN Returned(ready)
    ELSE IF fin[j] = None \/ NotSucceeded(Val(fin[j]))
      THEN CorticalReadyLoop(fin, lookups, j + 1, ready)
    ELSE IF RowLookupRaises(lookups[j]) THEN Raised
    ELSE IF LookupSkips(lookups[j])
      THEN CorticalReadyLoop(fin, lookups, j + 1, ready)
    ELSE IF LookupRaises(lookups[j]) THEN Raised
    ELSE CorticalReadyLoop(fin, lookups, j + 1,
             SetItem(ready, j, Val(Val(fin[j]).mtime)))

\* The ready_jobs a module inherits (pulse_response): the jobs its dependency
\* finished with success, with the finish time as dependency time.
DefaultReady(fin) ==
    LET done == SelectSeq([d \in 1..MaxDeps |-> d],
                          LAMBDA d : fin[d] # None /\ Val(fin[d]).success = Some(TRUE))
    IN  Returned([n \in 1..Len(done) |-> <<done[n], Val(Val(fin[done[n]]).mtime)>>])

\* module.ready_jobs()
ready_jobs(m, fin, srcs, lookups) ==
    CASE m = "experiment" -> ExperimentReadyLoop(fin, srcs, 1, <<>>)
      [] m = "opto_experiment" -> OptoReadyLoop(fin, srcs, 1, <<>>)
      [] m = "cortical_location" -> CorticalReadyLoop(fin, lookups, 1, <<>>)
      [] m = "pulse_response" -> DefaultReady(fin)

ReadinessModules == {"experiment", "opto_experiment", "cortical_location"}

\* the modules whose jobs are raw experiment sources
ExperimentModules == {"experiment", "opto_experiment"}

\* a module, the records of its dependency and what its sources hold
InitReadiness ==
    /\ module \in ReadinessModules
    /\ finished \in FinishedMaps
    /\ sources \in IF module = "cortical_location" THEN {<<>>} ELSE SourceLists
    /\ lims \in IF module = "cortical_location" THEN [DepJobs -> LimsOutcomes]
                ELSE {[j \in DepJobs |-> "polygons"]}
    /\ rj = None

CallReadyJobs ==
    /\ rj' = Some(ready_jobs(module, finished, sources, lims))
    /\ UNCHANGED <<module, finished, sources, lims, results, db_rows, pending,
                   run, now, fails, dj, first_rows, rerun, written, last_drop,
                   used>>
    /\ UNCHANGED <<exportVars, engineVars, tableVars,
                   workerVars, registryVars, bakeVars, toolVars>>

NextReady == CallReadyJobs

InitSpecReady ==
    IdleExport /\ IdleEngine /\ IdleTables /\ InitReadiness /\ IdleDriver /\ IdleOthers

SpecReady == InitSpecReady /\ [][NextReady]_vars

\* the jobs a ready_jobs() call looks at
CandidateJobs == IF module \in ExperimentModules THEN 1..Len(sources) ELSE DepJobs

\* the job of the dependency module that candidate j is built on
DependencyOf(j) == IF module \in ExperimentModules THEN sources[j].slice_ts ELSE j

\* the dependency module holds a record for d whose success flag is true
DependencySucceeded(d) ==
    finished[d] # None /\ Val(finished[d]).success = Some(TRUE)

\* the module's external precondition: the raw source can be read, the lookup
\* gives at least one polygon
SourcePrecondition(j) ==
    IF module \in ExperimentModules THEN sources[j].ok ELSE lims[j] = "polygons"

ShouldBeReady(j) == SourcePrecondition(j) /\ DependencySucceeded(DependencyOf(j))

ReadyJobsReturned == rj # None /\ ~Val(rj).raised

ReadyKeys == DOMAIN Val(rj).ready

\* C11: when ready_jobs returns, a job is a key of the mapping exactly when its
\* dependency holds a record for it whose success flag is true and the module's
\* source precondition holds; a job whose dependency record is missing, failed or
\* without success value is not a key.
C11_ReadyIffDependenciesSucceeded ==
    ReadyJobsReturned =>
        \A j \in CandidateJobs : (j \in ReadyKeys) <=> ShouldBeReady(j)

\* C12: ready_jobs returns whatever the inspection of one candidate gives, and
\* every candidate that meets both conditions is a key of what it returns.
C12_ReadyJobsNeverRaises ==
    rj # None =>
        /\ ~Val(rj).raised
        /\ \A j \in CandidateJobs : ShouldBeReady(j) => j \in ReadyKeys

\* the finish time of the dependency record and the modification time of the raw
\* source that job j depends on
DependencyTimes(j) ==
    {Val(Val(finished[DependencyOf(j)]).mtime)}
        \cup (IF module \in ExperimentModules THEN {sources[j].mtime} ELSE {})

\* C13: the dependency time that ready_jobs returns for a job is the largest of
\* the finish time of its dependency record and the modification time of its raw
\* source, hence not smaller than any of them.
C13_DependencyTimeIsMax ==
    ReadyJobsReturned =>
        \A j \in ReadyKeys :
            /\ Val(rj).ready[j] = MaxOf(DependencyTimes(j))
            /\ \A t \in DependencyTimes(j) : Val(rj).ready[j] >= t

\* a returned job whose slice finished after its raw source was last modified
C13_Witness ==
    /\ ReadyJobsReturned
    /\ module \in {"experiment", "opto_experiment"}
    /\ \E j \in ReadyKeys :
         /\ sources[j].mtime < Val(Val(finished[sources[j].slice_ts]).mtime)
         /\ Val(rj).ready[j] = Val(Val(finished[sources[j].slice_ts]).mtime)

\* ----------------------------------------------------------- job handlers
\* Number of cells (and of pulse responses) of one experiment.
MaxCells == 2

PipelineModules ==
    {"experiment", "opto_experiment", "pulse_response", "cortical_location"}

\* the job ids of the followed module: one per raw source for the experiment
\* modules, the job ids of the dependency for the others
ModuleJobs == IF module \in ExperimentModules THEN 1..Len(sources) ELSE DepJobs

\* `dependencies` of the module classes
Dependencies(m) ==
    CASE m = "experiment" -> {"slice"}
      [] m = "opto_experiment" -> {"opto_slice"}
      [] m = "pulse_response" -> {"dataset"}
      [] m = "cortical_location" -> {"experiment"}

\* `table_group` of the module classes
table_group(m) ==
    CASE m \in ExperimentModules -> {"experiment", "electrode", "cell", "pair"}
      [] m = "pulse_response" ->
           {"pulse_response_strength", "baseline_response_strength"}
      [] m = "cortical_location" -> {"cortical_cell_location"}

\* A table row.  expt is the experiment the row belongs to: its own timestamp /
\* ext_id for a row of the experiment table, the experiment its foreign keys
\* lead to for any other row.  slice is the slice an experiment row points to,
\* distance the lateral / vertical distance of a pair row.  Rows with equal
\* columns differ in copy (their serial primary keys differ).
NewRow(t, e, k, s) ==
    [table |-> t, expt |-> e, n |-> k, slice |-> s, distance |-> None, copy |-> 1]

Content(r) == [r EXCEPT !.copy = 1]

\* a session.add that loses the rows
InsertNothing(existing, contents) == {}

\* session.add of rows with the columns `contents` when `existing` rows are in
\* the tables and in the session
Insert(existing, contents) ==
    {[c EXCEPT !.copy = 1 + Cardinality({r \in existing : Content(r) = c})] :
        c \in contents}

Cells == 1..MaxCells

\* the parts of create_db_entries between which it can raise
HandlerSteps(m) ==
    CASE m \in ExperimentModules -> <<"experiment", "electrodes", "pairs">>
      [] m = "pulse_response" -> <<"pulse_response", "baseline">>
      [] m = "cortical_location" -> <<"locations", "distances">>

\* the pair rows of experiment e: one per ordered pair of distinct cells
PairRows(e) ==
    {NewRow("pair", e, (a - 1) * MaxCells + b, None) :
        <<a, b>> \in {p \in Cells \X Cells : p[1] # p[2]}}

\* the rows one part of create_db_entries adds to the session for job j
StepAdds(m, step, j, srcs) ==
    CASE step = "experiment" ->
           {NewRow("experiment", j, 1, Some(srcs[j].slice_ts))}
      [] step = "electrodes" ->
           {NewRow("electrode", j, c, None) : c \in Cells}
               \cup {NewRow("cell", j, c, None) : c \in Cells}
      [] step = "pairs" -> PairRows(j)
      [] step = "pulse_response" ->
           {NewRow("pulse_response_strength", j, c, None) : c \in Cells}
      [] step = "baseline" ->
           {NewRow("baseline_response_strength", j, c, None) : c \in Cells}
      [] step = "locations" ->
           {NewRow("cortical_cell_location", j, c, None) : c \in Cells}
      [] step = "distances" -> {}

\* the rows one part of create_db_entries changes, as <<row, changed row>>:
\* cortical_location sets pair.lateral_distance and pair.vertical_distance on
\* the pair rows of the experiment
StepUpdates(m, step, j, rows) ==
    IF step = "distances"
      THEN {<<r, [r EXCEPT !.distance = Some(j)]>> :
               r \in {x \in rows : x.table = "pair" /\ x.expt = j}}
      ELSE {}

\* a create_db_entries without `except: session.rollback(); raise`
NoHandlerRollback(m) == FALSE

\* opto_experiment's create_db_entries rolls the session back before it
\* re-raises; the other handlers let the exception pass
HandlerRollsBack(m) == m = "opto_experiment"

\* a job_records that finds nothing
NoJobRecords(m, job_ids, rows) == {}

\* a job_records without the filter on the job ids
RecordsOfAnyJob(m, job_ids, rows) == {r \in rows : r.table \in table_group(m)}

\* module.job_records(job_ids, session): the rows drop_jobs deletes
job_records(m, job_ids, rows) ==
    CASE m \in ExperimentModules ->
           {r \in rows : r.table = "experiment" /\ r.expt \in job_ids}
      [] m = "pulse_response" ->
           {r \in rows : r.table = "pulse_response_strength" /\ r.expt \in job_ids}
               \cup {r \in rows : r.table = "baseline_response_strength"
                                     /\ r.expt \in job_ids}
      [] m = "cortical_location" ->
           {r \in rows : r.table = "cortical_cell_location" /\ r.expt \in job_ids}

\* a query that filters on the experiment's own timestamp
DependentsByOwnId(job_ids, rows) ==
    {r.expt : r \in {x \in rows : x.table = "experiment" /\ x.expt \in job_ids}}

\* session.query(Experiment.acq_timestamp).join(Slice)
\*        .filter(Slice.acq_timestamp.in_(job_ids))
DependentsQuery(job_ids, rows) ==
    {r.expt : r \in {x \in rows : /\ x.table = "experiment"
                                  /\ x.slice # None
                                  /\ Val(x.slice) \in job_ids}}

\* what the check `type(module) not in self.dependencies` raises: experiment
\* raises ValueError; opto_experiment formats its message with the undefined
\* name `cls`, so building the ValueError raises NameError
NotADependency(m) == IF m = "opto_experiment" THEN "NameError" ELSE "ValueError"

\* module.dependent_job_ids(other, job_ids)
dependent_job_ids(m, other, job_ids, rows) ==
    IF other \notin Dependencies(m)
      THEN [raised |-> NotADependency(m), other |-> other, job_ids |-> job_ids,
            ids |-> {}, session_opened |-> FALSE]
      ELSE [raised |-> "none", other |-> other, job_ids |-> job_ids,
            ids |-> DependentsQuery(job_ids, rows), session_opened |-> TRUE]

\* ------------------------------------------------------ job execution driver
\* The driver (DatabasePipelineModule: finished_jobs, drop_jobs, the update
\* loop) follows sections 4.2 and 4.3 of the specification.
\* Number of events from outside a run: the dependency module finishes a job
\* (a first run or a rerun), jobs are dropped, a run is stopped.
MaxEvents == 1

\* a result record: success with its finish time, or an error with its detail
Success(t) == Some([success |-> TRUE, time |-> t, error |-> None])

Error(t) == Some([success |-> FALSE, time |-> t, error |-> Some("detail")])

IsSuccess(j) == results[j] # None /\ Val(results[j]).success

IsError(j) == results[j] # None /\ ~Val(results[j]).success

\* the rows of the followed module's tables that belong to job j
RowsOf(rows, j) == {r \in rows : r.table \in table_group(module) /\ r.expt = j}

Key(r) == <<r.table, r.expt, r.n, r.copy>>

\* everything create_db_entries adds for job j when it returns
AllRows(m, j, srcs) ==
    UNION {StepAdds(m, HandlerSteps(m)[k], j, srcs) : k \in 1..Len(HandlerSteps(m))}

\* the raw sources of a run: each refers to a slice. A job id is the place of
\* its source in the list, so the list is taken slice by slice.
PipelineSources ==
    {srcs \in [1..MaxSources -> {Readable(s, 1) : s \in DepJobs}] :
        \A k \in 1..(MaxSources - 1) : srcs[k].slice_ts <= srcs[k + 1].slice_ts}

\* Invariant I3: deleting an experiment row deletes the rows of the same table
\* group whose foreign keys lead to it
CascadeDeleted(deleted, rows) ==
    {r \in rows : \E p \in deleted : /\ p.table = "experiment"
                                  /\ r.table \in {"electrode", "cell", "pair"}
                                  /\ r.expt = p.expt
                                  /\ r.copy = p.copy}

\* the rows the dependency holds that the module's handler writes to: the pair
\* rows of the experiment for cortical_location
UpstreamRows(m, d, rows) ==
    IF m = "cortical_location" /\ ~\E r \in rows : r.table = "pair" /\ r.expt = d
      THEN PairRows(d)
      ELSE {}

\* what the dependency module has done before the module first runs: each of its
\* jobs is unprocessed or has succeeded
InitialRecords == [DepJobs -> {None, Some(DepRecord(1, Some(TRUE)))}]

InitDriver ==
    /\ module \in PipelineModules
    /\ finished \in InitialRecords
    /\ sources \in IF module \in ExperimentModules THEN PipelineSources ELSE {<<>>}
    /\ lims = [d \in DepJobs |-> "polygons"]
    /\ rj = None
    /\ fails \in SUBSET ModuleJobs
    /\ results = [j \in ModuleJobs |-> None]
    /\ db_rows = UNION {IF finished[d] = None THEN {}
                        ELSE UpstreamRows(module, d, {}) : d \in DepJobs}
    /\ pending = NoPending
    /\ run = IdleRun
    /\ now = 2
    /\ dj = None
    /\ first_rows = [j \in ModuleJobs |-> None]
    /\ rerun = {}
    /\ written = [j \in ModuleJobs |-> {}]
    /\ last_drop = None
    /\ used = 0

\* the dependency module finishes job d, with or without success
DependencyFinish(d, ok) ==
    /\ run.pc = "idle"
    /\ used < MaxEvents
    /\ now' = now + 1
    /\ finished' = [finished EXCEPT ![d] = Some(DepRecord(now', Some(ok)))]
    /\ db_rows' = IF ok THEN db_rows \cup UpstreamRows(module, d, db_rows)
                  ELSE db_rows
    /\ used' = used + 1
    /\ dj' = None
    /\ last_drop' = None
    /\ run' = IdleRun
    /\ UNCHANGED <<module, sources, lims, rj, results, pending, fails,
                   first_rows, rerun, written>>
    /\ UNCHANGED <<exportVars, engineVars, tableVars,
                   workerVars, registryVars, bakeVars, toolVars>>

\* a run of the module starts: the ready jobs without result record are its batch
BeginRun ==
    /\ run.pc = "idle"
    /\ LET r == ready_jobs(module, finished, sources, lims) IN
       /\ ~r.raised
       /\ LET todo == {j \in DOMAIN r.ready : results[j] = None} IN
          /\ todo # {}
          /\ run' = [IdleRun EXCEPT !.pc = "next", !.todo = todo, !.batch = todo]
       /\ rj' = Some(r)
    /\ dj' = None
    /\ last_drop' = None
    /\ UNCHANGED <<module, finished, sources, lims, results, db_rows, pending,
                   now, fails, first_rows, rerun, written, used>>
    /\ UNCHANGED <<exportVars, engineVars, tableVars,
                   workerVars, registryVars, bakeVars, toolVars>>

\* a driver that takes any job, in the batch or not
BeginAnyJob(j) ==
    /\ run.pc = "next"
    /\ run' = [run EXCEPT !.pc = "running", !.job = j, !.step = 0]
    /\ pending' = NoPending
    /\ dj' = None
    /\ UNCHANGED <<module, finished, sources, lims, rj, results, db_rows, now,
                   fails, first_rows, rerun, written, last_drop, used>>
    /\ UNCHANGED <<exportVars, engineVars, tableVars,
                   workerVars, registryVars, bakeVars, toolVars>>

\* the driver takes a job of the batch and opens its write session
BeginJob(j) ==
    /\ run.pc = "next"
    /\ j \in run.todo
    /\ run' = [run EXCEPT !.pc = "running", !.job = j, !.step = 0]
    /\ pending' = NoPending
    /\ dj' = None
    /\ UNCHANGED <<module, finished, sources, lims, rj, results, db_rows, now,
                   fails, first_rows, rerun, written, last_drop, used>>
    /\ UNCHANGED <<exportVars, engineVars, tableVars,
                   workerVars, registryVars, bakeVars, toolVars>>

\* create_db_entries runs its next part: the rows go to the write session
HandlerStep ==
    /\ run.pc = "running"
    /\ run.step < Len(HandlerSteps(module))
    /\ LET step == HandlerSteps(module)[run.step + 1] IN
       pending' =
           [adds |-> pending.adds \cup
                       Insert(db_rows \cup pending.adds,
                              StepAdds(module, step, run.job, sources)),
            updates |-> pending.updates \cup
                          StepUpdates(module, step, run.job, db_rows)]
    /\ run' = [run EXCEPT !.step = @ + 1]
    /\ UNCHANGED <<module, finished, sources, lims, rj, results, db_rows, now,
                   fails, dj, first_rows, rerun, written, last_drop, used>>
    /\ UNCHANGED <<exportVars, engineVars, tableVars,
                   workerVars, registryVars, bakeVars, toolVars>>

\* create_db_entries raises, before or after any of its parts
HandlerRaise ==
    /\ run.pc = "running"
    /\ run.job \in fails
    /\ pending' = IF HandlerRollsBack(module) THEN NoPending ELSE pending
    /\ run' = [run EXCEPT !.pc = "raised"]
    /\ UNCHANGED <<module, finished, sources, lims, rj, results, db_rows, now,
                   fails, dj, first_rows, rerun, written, last_drop, used>>
    /\ UNCHANGED <<exportVars, engineVars, tableVars,
                   workerVars, registryVars, bakeVars, toolVars>>

\* create_db_entries returns
HandlerReturn ==
    /\ run.pc = "running"
    /\ run.step = Len(HandlerSteps(module))
    /\ run.job \notin fails
    /\ run' = [run EXCEPT !.pc = "returned"]
    /\ UNCHANGED <<module, finished, sources, lims, rj, results, db_rows,
                   pending, now, fails, dj, first_rows, rerun, written,
                   last_drop, used>>
    /\ UNCHANGED <<exportVars, engineVars, tableVars,
                   workerVars, registryVars, bakeVars, toolVars>>

\* the driver goes on to the next job of the batch
Advance(j) ==
    [run EXCEPT !.pc = IF run.todo \ {j} = {} THEN "idle" ELSE "next",
                !.todo = @ \ {j},
                !.order = Append(@, j)]

\* the tables once the write session is committed
Committed(rows, session) ==
    ((rows \ {u[1] : u \in session.updates}) \cup {u[2] : u \in session.updates})
        \cup session.adds

\* on success the driver sets the finish time of the job to now and commits
DriverCommit ==
    /\ run.pc = "returned"
    /\ db_rows' = Committed(db_rows, pending)
    /\ pending' = NoPending
    /\ results' = [results EXCEPT ![run.job] = Success(now)]
    /\ first_rows' = IF first_rows[run.job] = None
                       THEN [first_rows EXCEPT
                                ![run.job] = Some(RowsOf(Committed(db_rows, pending),
                                                         run.job))]
                     ELSE first_rows
    /\ rerun' = IF first_rows[run.job] = None THEN rerun ELSE rerun \cup {run.job}
    /\ written' = [written EXCEPT
                      ![run.job] = {Key(r) : r \in pending.adds
                                       \cup {u[2] : u \in pending.updates}}]
    /\ run' = Advance(run.job)
    /\ UNCHANGED <<module, finished, sources, lims, rj, now, fails, dj, last_drop,
                   used>>
    /\ UNCHANGED <<exportVars, engineVars, tableVars,
                   workerVars, registryVars, bakeVars, toolVars>>

\* a driver that gives up the whole run when one job raises
DriverAbort ==
    /\ run.pc = "raised"
    /\ pending' = NoPending
    /\ run' = [run EXCEPT !.pc = "idle", !.todo = {}]
    /\ UNCHANGED <<module, finished, sources, lims, rj, results, db_rows, now,
                   fails, dj, first_rows, rerun, written, last_drop, used>>
    /\ UNCHANGED <<exportVars, engineVars, tableVars,
                   workerVars, registryVars, bakeVars, toolVars>>

\* on an exception the driver rolls the session back and records the error
DriverRollback ==
    /\ run.pc = "raised"
    /\ pending' = NoPending
    /\ results' = [results EXCEPT ![run.job] = Error(now)]
    /\ run' = Advance(run.job)
    /\ UNCHANGED <<module, finished, sources, lims, rj, db_rows, now, fails, dj,
                   first_rows, rerun, written, last_drop, used>>
    /\ UNCHANGED <<exportVars, engineVars, tableVars,
                   workerVars, registryVars, bakeVars, toolVars>>

\* the run is stopped (the process is interrupted): the database discards the
\* transaction of the open write session
Interrupt ==
    /\ run.pc # "idle"
    /\ used < MaxEvents
    /\ pending' = NoPending
    /\ run' = [run EXCEPT !.pc = "idle", !.todo = {}, !.stopped = TRUE]
    /\ used' = used + 1
    /\ UNCHANGED <<module, finished, sources, lims, rj, results, db_rows, now,
                   fails, dj, first_rows, rerun, written, last_drop>>
    /\ UNCHANGED <<exportVars, engineVars, tableVars,
                   workerVars, registryVars, bakeVars, toolVars>>

\* drop_jobs(job_ids): delete job_records(job_ids), with the cascade, and the
\* result records of the jobs
DropJobs(job_ids) ==
    /\ run.pc = "idle"
    /\ used < MaxEvents
    /\ LET found == job_records(module, job_ids, db_rows) IN
       db_rows' = db_rows \ (found \cup CascadeDeleted(found, db_rows))
    /\ results' = [j \in ModuleJobs |-> IF j \in job_ids THEN None ELSE results[j]]
    /\ last_drop' = Some([job_ids |-> job_ids,
                          wrote |-> UNION {written[j] : j \in job_ids}])
    /\ written' = [j \in ModuleJobs |-> IF j \in job_ids THEN {} ELSE written[j]]
    /\ used' = used + 1
    /\ dj' = None
    /\ run' = IdleRun
    /\ UNCHANGED <<module, finished, sources, lims, rj, pending, now, fails,
                   first_rows, rerun>>
    /\ UNCHANGED <<exportVars, engineVars, tableVars,
                   workerVars, registryVars, bakeVars, toolVars>>

\* dependent_job_ids(other, job_ids) of an experiment module
CallDependentJobIds(other, job_ids) ==
    /\ run.pc = "idle"
    /\ module \in ExperimentModules
    /\ dj' = Some(dependent_job_ids(module, other, job_ids, db_rows))
    /\ UNCHANGED <<module, finished, sources, lims, rj, results, db_rows,
                   pending, run, now, fails, first_rows, rerun, written,
                   last_drop, used>>
    /\ UNCHANGED <<exportVars, engineVars, tableVars,
                   workerVars, registryVars, bakeVars, toolVars>>

\* one step of the driver or of the handler it runs
DriverStep ==
    \/ \E j \in ModuleJobs : BeginJob(j)
    \/ HandlerStep
    \/ HandlerRaise
    \/ HandlerReturn
    \/ DriverCommit
    \/ DriverRollback

\* the module over time: its dependency finishes jobs, it runs, runs are
\* stopped, jobs are dropped
NextPipeline ==
    \/ \E d \in DepJobs, ok \in BOOLEAN : DependencyFinish(d, ok)
    \/ BeginRun
    \/ DriverStep
    \/ Interrupt
    \/ \E job_ids \in SUBSET ModuleJobs \ {{}} : DropJobs(job_ids)

InitSpecPipeline == IdleExport /\ IdleEngine /\ IdleTables /\ InitDriver /\ IdleOthers

SpecPipeline == InitSpecPipeline /\ [][NextPipeline]_vars

\* the runs of the module on what its dependency has finished
NextRun ==
    \/ BeginRun
    \/ DriverStep
    \/ Interrupt

InitSpecRun == IdleExport /\ IdleEngine /\ IdleTables /\ InitDriver /\ IdleOthers

\* the driver and the handler it runs keep going until the run is stopped
FairSpecRun == InitSpecRun /\ [][NextRun]_vars /\ WF_vars(DriverStep)

\* dependent_job_ids asked between runs and drops
NextDependents ==
    \/ BeginRun
    \/ DriverStep
    \/ \E job_ids \in SUBSET ModuleJobs \ {{}} : DropJobs(job_ids)
    \/ \E other \in {"slice", "opto_slice"}, job_ids \in SUBSET DepJobs :
         CallDependentJobIds(other, job_ids)

InitSpecDependents == IdleExport /\ IdleEngine /\ IdleTables /\ InitDriver /\ IdleOthers

SpecDependents == InitSpecDependents /\ [][NextDependents]_vars

\* ----------------------------------------------------- claims on the pipeline
\* the jobs of the module that hold rows
StoredJobs == {j \in ModuleJobs : RowsOf(db_rows, j) # {}}

AllOrNone(j) == RowsOf(db_rows, j) \in {{}, AllRows(module, j, sources)}

\* C15: outside a running handler the rows of the module for a job are all
\* there or none is; when the handler raises or the run is stopped the write
\* session holds nothing any more and no row of the job is in the tables.
C15_Atomicity ==
    /\ \A j \in ModuleJobs :
         (run.pc \in {"idle", "next"} \/ run.job # j) => AllOrNone(j)
    /\ (run.pc = "raised" /\ module = "opto_experiment") => pending = NoPending
    /\ run.pc \in {"idle", "next"} => pending = NoPending
    /\ \A j \in ModuleJobs : IsError(j) => RowsOf(db_rows, j) = {}
    /\ (run.stopped /\ run.job \in ModuleJobs /\ results[run.job] = None) =>
           RowsOf(db_rows, run.job) = {}

\* opto_experiment's handler raised after it had added rows to the session
C15_Witness ==
    /\ module = "opto_experiment"
    /\ run.pc = "raised"
    /\ run.step >= 1
    /\ pending = NoPending
    /\ RowsOf(db_rows, run.job) = {}

JobIds == 1..Max2(MaxSources, MaxDeps)

\* job j has the outcome its handler decides: an error record with detail and
\* no rows when the handler raises, a success record otherwise
Settled(j) ==
    IF j \in fails
      THEN /\ IsError(j)
           /\ Val(results[j]).error # None
           /\ RowsOf(db_rows, j) = {}
      ELSE IsSuccess(j)

\* C16: every job of a batch gets its outcome unless the run is stopped: a job
\* whose handler raises is recorded as error with detail and without rows, and
\* every other job of the batch reaches success, wherever the failing job stands.
C16_PartialFailureIsolation ==
    \A j \in JobIds :
        (run.pc # "idle" /\ j \in run.batch)
            ~> (run.stopped \/ (j \in ModuleJobs /\ Settled(j)))

\* a finished run whose first job failed and whose second job succeeded
C16_Witness ==
    /\ run.pc = "idle"
    /\ ~run.stopped
    /\ Len(run.order) >= 2
    /\ run.order[1] \in fails
    /\ IsError(run.order[1])
    /\ IsSuccess(run.order[2])

\* C17: after drop_jobs(job_ids) no row of a table of the module belongs to one
\* of the jobs, and no row that the handler wrote for them is left.
C17_DropLeavesNoRows ==
    last_drop # None =>
        /\ \A r \in db_rows :
             r.table \in table_group(module) => r.expt \notin Val(last_drop).job_ids
        /\ \A r \in db_rows : Key(r) \notin Val(last_drop).wrote

\* C18: a job that succeeded holds the rows its first successful run left, also
\* after drop_jobs and a new run, and the rows of the other jobs stay.
C18_Idempotence ==
    \A j \in ModuleJobs :
        (IsSuccess(j) /\ first_rows[j] # None) =>
            RowsOf(db_rows, j) = Val(first_rows[j])

\* a job was dropped and ran again while another job kept its rows
C18_Witness ==
    \E j \in rerun :
        /\ IsSuccess(j)
        /\ RowsOf(db_rows, j) = Val(first_rows[j])
        /\ RowsOf(db_rows, j) # {}
        /\ \E k \in ModuleJobs \ rerun : IsSuccess(k) /\ RowsOf(db_rows, k) # {}

\* a run went through its whole batch
RunComplete == run.pc = "idle" /\ run.batch # {} /\ ~run.stopped

\* C19: whatever the order in which a run takes the jobs of its batch, it ends
\* with the same rows and the same outcome for each job.
C19_OrderIndependence ==
    RunComplete =>
        \A j \in run.batch :
            IF j \in fails
              THEN IsError(j) /\ RowsOf(db_rows, j) = {}
              ELSE IsSuccess(j) /\ RowsOf(db_rows, j) = AllRows(module, j, sources)

\* a run that took job 2 before job 1
C19_Witness ==
    /\ RunComplete
    /\ Len(run.order) >= 2
    /\ run.order[1] > run.order[2]
    /\ IsSuccess(run.order[1])
    /\ IsSuccess(run.order[2])

\* the record the dependency holds for the job that j is built on
UpstreamRecord(j) == finished[DependencyOf(j)]

dependency_time(m, j, fin, srcs) ==
    LET d  == IF m \in ExperimentModules THEN srcs[j].slice_ts ELSE j
        up == IF fin[d] = None THEN 0 ELSE Val(Val(fin[d]).mtime)
    IN  IF m \in ExperimentModules THEN DepTime(srcs[j].mtime, up) ELSE up

\* a staleness test that also fires when the two times are equal
StaleOrEqual(m, j, res, fin, srcs) ==
    res[j] # None /\ Val(res[j]).time <= dependency_time(m, j, fin, srcs)

\* is_stale(module, job_id): the module's own finish time for the job is less
\* than the job's current dependency time
is_stale(m, j, res, fin, srcs) ==
    res[j] # None /\ Val(res[j]).time < dependency_time(m, j, fin, srcs)

\* job j is a key of what ready_jobs returns now
IsReady(j) ==
    \E r \in {ready_jobs(module, finished, sources, lims)} :
        ~r.raised /\ j \in DOMAIN r.ready

\* the handler of job j is running or the driver is about to end its session
IsRunning(j) == run.pc \in {"running", "returned", "raised"} /\ run.job = j

\* the state of (module, job j)
JobState(j) ==
    IF IsRunning(j) THEN "Running"
    ELSE IF IsError(j) THEN "Error"
    ELSE IF IsSuccess(j)
      THEN IF is_stale(module, j, results, finished, sources) THEN "Stale"
           ELSE "Success"
    ELSE IF IsReady(j) THEN "Ready"
    ELSE "NotReady"

\* the driver schedules a stale job for recompute: its rows and its record are
\* dropped, as drop_jobs does
Invalidate(j) ==
    /\ run.pc = "idle"
    /\ j \in ModuleJobs
    /\ JobState(j) = "Stale"
    /\ LET found == job_records(module, {j}, db_rows) IN
       db_rows' = db_rows \ (found \cup CascadeDeleted(found, db_rows))
    /\ results' = [results EXCEPT ![j] = None]
    /\ last_drop' = Some([job_ids |-> {j}, wrote |-> written[j]])
    /\ written' = [written EXCEPT ![j] = {}]
    /\ dj' = None
    /\ run' = IdleRun
    /\ UNCHANGED <<module, finished, sources, lims, rj, pending, now, fails,
                   first_rows, rerun, used>>
    /\ UNCHANGED <<exportVars, engineVars, tableVars,
                   workerVars, registryVars, bakeVars, toolVars>>

\* the driver's recompute of stale jobs
Recompute == \E j \in JobIds : Invalidate(j)

\* the pipeline with the recompute of stale jobs
NextStale ==
    \/ \E d \in DepJobs, ok \in BOOLEAN : DependencyFinish(d, ok)
    \/ BeginRun
    \/ DriverStep
    \/ Interrupt
    \/ \E job_ids \in SUBSET ModuleJobs \ {{}} : DropJobs(job_ids)
    \/ Recompute

InitSpecStale == IdleExport /\ IdleEngine /\ IdleTables /\ InitDriver /\ IdleOthers

SpecStale == InitSpecStale /\ [][NextStale]_vars

\* the pipeline once the dependency holds a record for each of its jobs: every
\* dependency job has a source that refers to it, and the handler raises for the
\* first job or for none
InitSettled ==
    /\ InitDriver
    /\ \A d \in DepJobs : finished[d] # None
    /\ module \in ExperimentModules =>
           \A d \in DepJobs : \E k \in 1..Len(sources) : sources[k].slice_ts = d
    /\ fails \subseteq {1}

\* the dependency recomputes jobs, the module runs and recomputes what is stale;
\* no run is stopped and no job is dropped by hand
NextRecompute ==
    \/ \E d \in DepJobs, ok \in BOOLEAN : DependencyFinish(d, ok)
    \/ BeginRun
    \/ DriverStep
    \/ Recompute

InitSpecRecompute == IdleExport /\ IdleEngine /\ IdleTables /\ InitSettled /\ IdleOthers

\* the driver keeps going: it runs its handlers to the end and recomputes what
\* is stale
FairSpecRecompute ==
    InitSpecRecompute /\ [][NextRecompute]_vars
        /\ WF_vars(DriverStep) /\ WF_vars(Recompute)

\* the job depends on the job that the dependency finishes in this step
DependencyAdvances(j) ==
    /\ j \in ModuleJobs
    /\ finished'[DependencyOf(j)] # finished[DependencyOf(j)]

\* C21: is_stale(module, job) is true when the dependency has finished the job
\* again after the module's record was written, and false when the module's
\* record was written after every finish of the dependency: a step in which
\* the dependency finishes the job leaves a module record stale, and a step in
\* which the module records the job leaves it not stale (is_stale depends on
\* nothing but the two records and the raw source).
C21_IsStale ==
    [][\A j \in JobIds :
          /\ (DependencyAdvances(j) /\ results[j] # None)
                 => is_stale(module, j, results, finished, sources)'
          /\ (j \in ModuleJobs /\ results'[j] # results[j] /\ results'[j] # None)
                 => ~is_stale(module, j, results, finished, sources)']_vars

\* the module succeeded on a job and its dependency then finished it again
C21_Witness ==
    \E j \in ModuleJobs :
        /\ IsSuccess(j)
        /\ is_stale(module, j, results, finished, sources)
        /\ Val(results[j]).time < Val(Val(UpstreamRecord(j)).mtime)

\* the transitions of the state machine per (module, job)
ListedTransitions ==
    {<<"NotReady", "Ready">>, <<"Ready", "Running">>, <<"Running", "Success">>,
     <<"Running", "Error">>, <<"Success", "Stale">>, <<"Stale", "Ready">>}

\* the transitions of a job whose dependency stops being a success
OtherTransitions == {<<"Ready", "NotReady">>, <<"Stale", "NotReady">>}

\* every job changes state only along the transitions T
Follows(T) ==
    \A j \in JobIds :
        j \in ModuleJobs =>
            \/ JobState(j)' = JobState(j)
            \/ <<JobState(j), JobState(j)'>> \in T

MaxModules == 3

ModuleNames == 1..MaxModules

\* the modules that can be reached from the modules `seen` along dependencies
RECURSIVE Reach(_, _)
Reach(reg, seen) ==
    LET next == seen \cup UNION {reg[m] : m \in seen \cap DOMAIN reg}
    IN  IF next = seen THEN seen ELSE Reach(reg, next)

\* a cycle check that looks at the module's own dependencies only
SelfDependencyOnly(reg, m, deps) == m \in deps

\* adding m with the dependencies deps would close a cycle: m can be reached
\* from one of its dependencies
WouldCycle(reg, m, deps) == m \in Reach(reg, deps)

\* register(module): the outcome and the registry it leaves
register(reg, m, deps) ==
    IF WouldCycle(reg, m, deps)
      THEN [result |-> "CycleError", registry |-> reg]
      ELSE [result |-> "registered", registry |-> (m :> deps) @@ reg]

MinOf(S) == CHOOSE x \in S : \A y \in S : x <= y

\* an order that lists the registered modules by name
NameOrder(reg) ==
    SelectSeq([k \in 1..MaxModules |-> k], LAMBDA m : m \in DOMAIN reg)

\* topological_order(): the registered modules, each placed once every
\* registered dependency of it is placed
RECURSIVE TopoLoop(_, _)
TopoLoop(reg, order) ==
    LET free == {m \in DOMAIN reg \ Elems(order) :
                    (reg[m] \cap DOMAIN reg) \subseteq Elems(order)}
    IN  IF free = {} THEN order ELSE TopoLoop(reg, Append(order, MinOf(free)))

topological_order(reg) == TopoLoop(reg, <<>>)

\* at process start no module is registered
InitRegistry ==
    /\ registry = <<>>
    /\ reg_last = NoRegistryCall

\* a call of register for module m, whose dependencies are deps
Register(m, deps) ==
    /\ m \notin DOMAIN registry
    /\ LET r == register(registry, m, deps) IN
       /\ registry' = r.registry
       /\ reg_last' = [NoRegistryCall EXCEPT !.op = "register",
                                             !.module = m,
                                             !.dependencies = deps,
                                             !.result = r.result]
    /\ UNCHANGED <<exportVars, engineVars, tableVars, pipelineVars,
                   workerVars, bakeVars, toolVars>>

\* a call of topological_order()
CallTopologicalOrder ==
    /\ reg_last' = [NoRegistryCall EXCEPT !.op = "topological_order",
                                          !.result = "returned",
                                          !.order = topological_order(registry)]
    /\ UNCHANGED registry
    /\ UNCHANGED <<exportVars, engineVars, tableVars, pipelineVars,
                   workerVars, bakeVars, toolVars>>

NextRegistry ==
    \/ \E m \in ModuleNames, deps \in SUBSET ModuleNames : Register(m, deps)
    \/ CallTopologicalOrder

InitSpecRegistry ==
    IdleExport /\ IdleEngine /\ IdleTables /\ IdlePipeline /\ IdleWorkers
        /\ InitRegistry /\ IdleBake /\ IdleTool

SpecRegistry == InitSpecRegistry /\ [][NextRegistry]_vars

\* ------------------------------------------------------ claims on the registry
\* a dependency relation without cycle: no module is reached from its own
\* dependencies
Acyclic(reg) == \A m \in DOMAIN reg : m \notin Reach(reg, reg[m])

\* C23: a register call raises CycleError exactly when the registry with the
\* module added has a cycle; a call that raises leaves the registry as it was
\* and a call that returns adds the module; the registry never has a cycle.
C23_CycleError ==
    /\ [][reg_last'.op = "register" =>
            LET m == reg_last'.module
                added == (m :> reg_last'.dependencies) @@ registry
            IN  /\ (reg_last'.result = "CycleError") <=> ~Acyclic(added)
                /\ registry' = IF reg_last'.result = "CycleError"
                                 THEN registry ELSE added]_vars
    /\ [](Acyclic(registry))

\* C23 witness: a registration was refused because it would have closed a cycle
\* through another registered module
C23_Witness ==
    /\ reg_last.op = "register"
    /\ reg_last.result = "CycleError"
    /\ reg_last.module \notin reg_last.dependencies
    /\ reg_last.module \notin DOMAIN registry
    /\ registry # <<>>

\* C24: topological_order() returns every registered module exactly once, and
\* each module after every module it depends on.
C24_TopologicalOrder ==
    reg_last.op = "topological_order" =>
        LET order == reg_last.order IN
        /\ Len(order) = Cardinality(DOMAIN registry)
        /\ Elems(order) = DOMAIN registry
        /\ \A a, b \in 1..Len(order) : order[b] \in registry[order[a]] => b < a

\* C24 witness: three modules in a chain (as slice, experiment and
\* cortical_location) were ordered, against the order of their names
C24_Witness ==
    /\ reg_last.op = "topological_order"
    /\ Len(reg_last.order) = 3
    /\ reg_last.order[1] \in registry[reg_last.order[2]]
    /\ reg_last.order[2] \in registry[reg_last.order[3]]
    /\ reg_last.order[1] > reg_last.order[2]


\* --------------------------------------------------- read-only sessions: claims
\* the engine was created with isolation_level='AUTOCOMMIT'
Autocommit(engine) == options[engine].isolation_level = Some("AUTOCOMMIT")

\* C25: whatever the form of the read-only address, once Session(readonly=True)
\* has returned a session the read-only engine has the autocommit isolation
\* level, and so has the engine of every read-only session.
C25_ReadOnlyAutocommit ==
    (last.op = "Session" /\ last.readonly) =>
        /\ engine_ro # None /\ Autocommit(Val(engine_ro))
        /\ \A n \in 1..Len(sessions) :
               sessions[n].readonly => Autocommit(Val(sessions[n].bind))


\* ------------------------------------ operations that open a read-only session
\* How an operation that opens a session of its own ends: before it opens the
\* session ("early"), with the session opened and no query made on it
\* ("unused"), by returning after its queries ("return"), or by an exception in
\* or after a query ("raise").  What it did to its session by then: opened it,
\* queried on it (which begins a transaction on the session), rolled it back.
Use(opens, queried, rolled_back) ==
    [opens |-> opens, queried |-> queried, rolled_back |-> rolled_back]

\* ExperimentPipelineModule.ready_jobs: session = db.session(), one query, no
\* rollback.  dependent_job_ids: ValueError before the session is opened, or
\* session = db.session(), the query, session.rollback(), return
ExperimentSessionUse(op, path) ==
    CASE op = "experiment.ready_jobs" -> Use(TRUE, TRUE, FALSE)
      [] op = "experiment.dependent_job_ids" ->
           Use(path # "early", path # "early", path = "return")

\* CortexLocationPipelineModule.ready_jobs: session = db.session(), a query for
\* each experiment that succeeded, no rollback
CorticalSessionUse(op, path) == Use(TRUE, path # "unused", FALSE)

\* TableReadThread.__init__: Session().query(func.max(table.id)), no rollback.
\* TableReadThread.run: session = Session(), range(0, None, chunksize) raises
\* before any query, or the queries, then session.rollback() unless one raised.
\* bake_sqlite: read_session = Session(), no query on it, read_session.rollback()
\* after each table
ExportSessionUse(op, path) ==
    CASE op = "TableReadThread.__init__" -> Use(TRUE, TRUE, FALSE)
      [] op = "TableReadThread.run" ->
           Use(TRUE, path # "unused", path = "return")
      [] op = "bake_sqlite" -> Use(TRUE, FALSE, path = "return")

SessionOps ==
    {"experiment.ready_jobs", "experiment.dependent_job_ids",
     "cortical_location.ready_jobs", "TableReadThread.__init__",
     "TableReadThread.run", "bake_sqlite"}

\* the ways an operation can end
PathsOf(op) ==
    CASE op = "experiment.dependent_job_ids" -> {"early", "return", "raise"}
      [] op \in {"cortical_location.ready_jobs", "TableReadThread.run"} ->
           {"unused", "return", "raise"}
      [] OTHER -> {"return", "raise"}

SessionUse(op, path) ==
    CASE op \in {"experiment.ready_jobs", "experiment.dependent_job_ids"} ->
           ExperimentSessionUse(op, path)
      [] op = "cortical_location.ready_jobs" -> CorticalSessionUse(op, path)
      [] OTHER -> ExportSessionUse(op, path)

\* one of the operations runs from its call to its end
CallOperation(op, path) ==
    /\ EnginesLeft
    /\ Len(sessions) < MaxSessions
    /\ LET use == SessionUse(op, path)
           r == SessionCall(Globals, pid, TRUE)
           session == Len(sessions) + 1
       IN  /\ IF use.opens
                THEN /\ SetGlobals(r.g)
                     /\ sessions' = Append(sessions, Val(r.session))
                ELSE UNCHANGED <<engine_ro, engine_rw, engine_pid, sessionmaker_ro,
                                 sessionmaker_rw, creator, options, disposed,
                                 sessions>>
           /\ in_txn' = IF use.queried /\ ~use.rolled_back
                          THEN in_txn \cup {session} ELSE in_txn
           /\ last' = [NoCall EXCEPT !.op = op,
                                     !.readonly = TRUE,
                                     !.result = path,
                                     !.raised = (path \in {"early", "raise"}),
                                     !.session = IF use.opens THEN Some(session)
                                                 ELSE None]
    /\ UNCHANGED <<db_address_ro, db_address_rw, pid, default_session>>
    /\ UNCHANGED <<exportVars, tableVars, pipelineVars,
                   workerVars, registryVars, bakeVars, toolVars>>

\* the operations are called one after the other, in forked workers too
NextSessions ==
    \/ Fork
    \/ \E op \in SessionOps : \E path \in PathsOf(op) : CallOperation(op, path)

InitSpecSessions ==
    IdleExport /\ InitEngine /\ IdleTables /\ IdlePipeline /\ IdleOthers

SpecSessions == InitSpecSessions /\ [][NextSessions]_vars

\* C26: when one of these operations has ended, by return, early return or
\* exception, the session it opened holds no open transaction.
C26_NoOpenTransaction ==
    (last.op \in SessionOps /\ last.session # None) =>
        Val(last.session) \notin in_txn


\* ----------------------------------------------- order of ready_jobs: claims
\* the candidates in discovery order: the sources as discovery lists them (the
\* k-th has job id k), the records of the dependency as it lists them
DiscoveryOrder == [k \in 1..Cardinality(CandidateJobs) |-> k]

\* C27: the mapping ready_jobs returns iterates over its keys in the discovery
\* order of the sources, and a further call on unchanged inputs returns the
\* same keys, values and order.
C27_StableOrder ==
    /\ [](ReadyJobsReturned =>
            Val(rj).order = SelectSeq(DiscoveryOrder, LAMBDA j : j \in ReadyKeys))
    /\ [][(rj # None /\ UNCHANGED <<module, finished, sources, lims>>) =>
            rj' = rj]_vars

\* C27 witness: a call returned more than one job, after a source it passed
\* over or with all sources ready
C27_Witness ==
    /\ ReadyJobsReturned
    /\ Len(Val(rj).order) >= 2
    /\ Val(rj).order[1] < Val(rj).order[2]


\* ============================================================ worker processes
\* Two worker processes run jobs of the followed module side by side, as the
\* driver runs one job (sections 4.3 and 5 of the specification): each takes
\* the jobs given to it one after the other, with a write session of its own.
Workers == 1..2

IdleWorker(jobs) ==
    [assigned |-> jobs, todo |-> jobs, pc |-> IF jobs = {} THEN "done" ELSE "next",
     job |-> 0, step |-> 0, session |-> NoPending]

\* each job of the module is given to one of the workers; the dependency has
\* finished every job
InitWorkers ==
    /\ InitDriver
    /\ \A d \in DepJobs : finished[d] # None
    /\ \E given \in [ModuleJobs -> Workers] :
         workers = [w \in Workers |-> IdleWorker({j \in ModuleJobs : given[j] = w})]

\* what leaves a worker's session alone: the variables no worker step changes
WorkerFrame ==
    /\ UNCHANGED <<module, finished, sources, lims, rj, pending, run, now, fails,
                   dj, first_rows, rerun, written, last_drop, used>>
    /\ UNCHANGED <<exportVars, engineVars, tableVars, registryVars, bakeVars,
                   toolVars>>

\* worker w takes one of its jobs and opens its write session
WorkerBegin(w, j) ==
    /\ workers[w].pc = "next"
    /\ j \in workers[w].todo
    /\ workers' = [workers EXCEPT ![w].pc = "running", ![w].job = j,
                                  ![w].step = 0, ![w].session = NoPending]
    /\ UNCHANGED <<results, db_rows>>
    /\ WorkerFrame

\* create_db_entries runs its next part in worker w: the rows go to the write
\* session of w
WorkerHandlerStep(w) ==
    /\ workers[w].pc = "running"
    /\ workers[w].step < Len(HandlerSteps(module))
    /\ LET step == HandlerSteps(module)[workers[w].step + 1]
           session == workers[w].session
       IN  workers' =
             [workers EXCEPT
                ![w].step = @ + 1,
                ![w].session =
                    [adds |-> session.adds \cup
                                Insert(db_rows \cup session.adds,
                                       StepAdds(module, step, workers[w].job, sources)),
                     updates |-> session.updates \cup
                                   StepUpdates(module, step, workers[w].job, db_rows)]]
    /\ UNCHANGED <<results, db_rows>>
    /\ WorkerFrame

\* create_db_entries raises in worker w
WorkerHandlerRaise(w) ==
    /\ workers[w].pc = "running"
    /\ workers[w].job \in fails
    /\ workers' = [workers EXCEPT
                      ![w].pc = "raised",
                      ![w].session = IF HandlerRollsBack(module) THEN NoPending ELSE @]
    /\ UNCHANGED <<results, db_rows>>
    /\ WorkerFrame

\* create_db_entries returns in worker w
WorkerHandlerReturn(w) ==
    /\ workers[w].pc = "running"
    /\ workers[w].step = Len(HandlerSteps(module))
    /\ workers[w].job \notin fails
    /\ workers' = [workers EXCEPT ![w].pc = "returned"]
    /\ UNCHANGED <<results, db_rows>>
    /\ WorkerFrame

\* worker w goes on to the next of its jobs
WorkerAdvance(w) ==
    [workers EXCEPT
        ![w].pc = IF workers[w].todo \ {workers[w].job} = {} THEN "done" ELSE "next",
        ![w].todo = @ \ {workers[w].job},
        ![w].session = NoPending]

\* worker w commits its session and records the success
WorkerCommit(w) ==
    /\ workers[w].pc = "returned"
    /\ db_rows' = Committed(db_rows, workers[w].session)
    /\ results' = [results EXCEPT ![workers[w].job] = Success(now)]
    /\ workers' = WorkerAdvance(w)
    /\ WorkerFrame

\* a rollback on a session that all workers share
WorkerRollbackAll(w) ==
    /\ workers[w].pc = "raised"
    /\ results' = [results EXCEPT ![workers[w].job] = Error(now)]
    /\ workers' = [v \in Workers |->
                     IF v = w THEN WorkerAdvance(w)[w]
                     ELSE [workers[v] EXCEPT !.session = NoPending]]
    /\ UNCHANGED db_rows
    /\ WorkerFrame

\* worker w rolls its session back and records the error
WorkerRollback(w) ==
    /\ workers[w].pc = "raised"
    /\ results' = [results EXCEPT ![workers[w].job] = Error(now)]
    /\ workers' = WorkerAdvance(w)
    /\ UNCHANGED db_rows
    /\ WorkerFrame

WorkerStep(w) ==
    \/ \E j \in ModuleJobs : WorkerBegin(w, j)
    \/ WorkerHandlerStep(w)
    \/ WorkerHandlerRaise(w)
    \/ WorkerHandlerReturn(w)
    \/ WorkerCommit(w)
    \/ WorkerRollback(w)

NextWorkers == \E w \in Workers : WorkerStep(w)

InitSpecWorkers ==
    IdleExport /\ IdleEngine /\ IdleTables /\ InitWorkers /\ IdleRegistry
        /\ IdleBake /\ IdleTool

SpecWorkers == InitSpecWorkers /\ [][NextWorkers]_vars

\* ------------------------------------------------------- claims on the workers
\* the session of create_db_entries for job j, run to its end on the tables
\* `rows`
RECURSIVE WholeSession(_, _, _, _)
WholeSession(rows, j, k, session) ==
    IF k > Len(HandlerSteps(module)) THEN session
    ELSE LET step == HandlerSteps(module)[k] IN
         WholeSession(rows, j, k + 1,
             [adds |-> session.adds \cup
                         Insert(rows \cup session.adds,
                                StepAdds(module, step, j, sources)),
              updates |-> session.updates \cup StepUpdates(module, step, j, rows)])

\* the tables after the jobs were run one after the other, each to its end
RECURSIVE RunSequentially(_, _)
RunSequentially(rows, jobs) ==
    IF jobs = {} THEN rows
    ELSE LET j == MinOf(jobs)
             after == IF j \in fails THEN rows
                      ELSE Committed(rows, WholeSession(rows, j, 1, NoPending))
         IN  RunSequentially(after, jobs \ {j})

\* the tables before any job of the module ran
RowsBefore == UNION {UpstreamRows(module, d, {}) : d \in DepJobs}

\* everything that belongs to job j: its rows, its result record, and the
\* session of the worker that runs it
Belongings(j) ==
    [rows |-> {r \in db_rows : r.expt = j},
     result |-> results[j],
     sessions |-> {workers[w].session : w \in {v \in Workers : workers[v].job = j
                                                  /\ workers[v].pc # "next"}}]

\* C28: once both workers have run their jobs the tables are what running the
\* jobs one after the other gives, and a commit or rollback of one worker leaves
\* the rows, the result records and the session of the other worker's jobs as
\* they were.
C28_DisjointWorkers ==
    /\ []((\A w \in Workers : workers[w].pc = "done") =>
            /\ db_rows = RunSequentially(RowsBefore, ModuleJobs)
            /\ \A j \in ModuleJobs : IsSuccess(j) <=> j \notin fails)
    /\ [][\A w \in Workers :
            (workers[w].pc \in {"returned", "raised"} /\ workers'[w] # workers[w]) =>
                \A j \in ModuleJobs \ workers[w].assigned :
                    Belongings(j)' = Belongings(j)]_vars

\* C28 witness: both workers have run a job, one committed while the session of
\* the other held rows, and both jobs are stored
C28_Witness ==
    /\ \A w \in Workers : workers[w].pc = "done" /\ workers[w].assigned # {}
    /\ \A j \in ModuleJobs : IsSuccess(j) /\ RowsOf(db_rows, j) # {}


\* ================================================================ bake_sqlite
\* The loops of bake_sqlite over the modules and the tables of their table
\* groups, from `read_session = Session()` on.  The reader of a table
\* (TableReadThread) is taken by what its iterator gives the loop: batches of
\* rows, then the end of the table, or nothing at all when the thread died.
\* Number of modules all_modules() lists.
MaxGroups == 2
\* Largest number of batches the reader of one table puts on its queue.
MaxBatches == 2

\* the tables in the order of the two for loops, as <<module, table>>
RECURSIVE BakeTablesFrom(_, _)
BakeTablesFrom(groups, m) ==
    IF m > Len(groups) THEN <<>>
    ELSE [t \in 1..groups[m] |-> <<m, t>>] \o BakeTablesFrom(groups, m + 1)

BakeTables == BakeTablesFrom(bake_schemas, 1)

\* each module's table group has some tables or none; the destination is
\* created and both sessions are open
InitBake ==
    /\ bake_schemas \in [1..MaxGroups -> 0..MaxTables]
    /\ bake = [NoBake EXCEPT !.pc = "table", !.table = 1]

BakeFrame ==
    /\ UNCHANGED bake_schemas
    /\ UNCHANGED <<exportVars, engineVars, tableVars, pipelineVars, workerVars,
                   registryVars, toolVars>>

\* reader = TableReadThread(table): max_id is None for an empty table and the
\* thread dies; after the last table the loops end
BakeStartTable ==
    /\ bake.pc = "table"
    /\ IF bake.table > Len(BakeTables)
         THEN bake' = [bake EXCEPT !.pc = "analyze"]
         ELSE \E reader \in {"alive", "dead"} :
                bake' = [bake EXCEPT !.pc = "get", !.reader = reader,
                                     !.sentinel = FALSE, !.batches = 0,
                                     !.recs = 0, !.yielded = 0, !.inserted = 0]
    /\ BakeFrame

\* recs = self.queue.get(): a batch of rows (the rows one range query found,
\* none at all maybe), or None once the table is read; a table that is not
\* empty is read by one range query at least
BakeGet ==
    /\ bake.pc = "get"
    /\ bake.reader = "alive"
    /\ \/ /\ bake.batches >= 1
          /\ bake' = [bake EXCEPT !.pc = "print", !.sentinel = TRUE]
       \/ /\ bake.batches < MaxBatches
          /\ \E n \in 0..MaxChunk :
               bake' = [bake EXCEPT !.pc = "recs", !.batches = @ + 1, !.recs = n]
    /\ BakeFrame

\* for rec in recs: yield rec, which enumerate hands to the loop as i, rec
BakeYield ==
    /\ bake.pc = "recs"
    /\ IF bake.recs = 0
         THEN bake' = [bake EXCEPT !.pc = "get"]
         ELSE bake' = [bake EXCEPT !.pc = "insert", !.recs = @ - 1,
                                   !.yielded = @ + 1, !.i_bound = TRUE]
    /\ BakeFrame

\* write_session.execute(table.__table__.insert(rec))
BakeInsert ==
    /\ bake.pc = "insert"
    /\ bake' = [bake EXCEPT !.pc = "recs", !.inserted = @ + 1]
    /\ BakeFrame

\* print("   committing %d rows.." % i): i is not bound when no table has
\* yielded a row so far
BakePrintCommitting ==
    /\ bake.pc = "print"
    /\ bake' = [bake EXCEPT !.pc = IF bake.i_bound THEN "commit" ELSE "raised"]
    /\ BakeFrame

\* write_session.commit(); read_session.rollback(); on to the next table
BakeCommit ==
    /\ bake.pc = "commit"
    /\ bake' = [bake EXCEPT !.pc = "table", !.table = @ + 1,
                            !.commits = Append(@, BakeTables[bake.table])]
    /\ BakeFrame

\* write_session.execute("analyze")
BakeAnalyze ==
    /\ bake.pc = "analyze"
    /\ bake' = [bake EXCEPT !.pc = "commit_analyze", !.analyzed = @ + 1]
    /\ BakeFrame

\* write_session.commit()
BakeCommitAnalyze ==
    /\ bake.pc = "commit_analyze"
    /\ bake' = [bake EXCEPT !.pc = "finish", !.analyze_committed = TRUE]
    /\ BakeFrame

\* a bake that reports before its last commit
BakeFinishUncommitted ==
    /\ bake.pc \in {"commit_analyze", "finish"}
    /\ bake' = [bake EXCEPT !.pc = "done"]
    /\ BakeFrame

\* print("All finished!")
BakeFinish ==
    /\ bake.pc = "finish"
    /\ bake' = [bake EXCEPT !.pc = "done"]
    /\ BakeFrame

NextBake ==
    \/ BakeStartTable
    \/ BakeGet
    \/ BakeYield
    \/ BakeInsert
    \/ BakePrintCommitting
    \/ BakeCommit
    \/ BakeAnalyze
    \/ BakeCommitAnalyze
    \/ BakeFinish

InitSpecBake ==
    IdleExport /\ IdleEngine /\ IdleTables /\ IdlePipeline /\ IdleWorkers
        /\ IdleRegistry /\ InitBake /\ IdleTool

SpecBake == InitSpecBake /\ [][NextBake]_vars

\* ----------------------------------------------------- claims on bake_sqlite
\* the tables whose loop bake_sqlite has left by a commit
TablesPassed == {BakeTables[n] : n \in 1..(bake.table - 1)}

\* the destination was committed for a table
TableCommit == Len(bake'.commits) > Len(bake.commits)

\* C29: the destination is committed once for each table bake_sqlite has gone
\* past and for no other; a commit for a table comes only after the loop
\* received the end of that table and inserted every row it was given, hence
\* not between two batches; and bake_sqlite does not end on a table of which
\* it received the end without having committed it.
C29_CommitPerTable ==
    /\ [](/\ {bake.commits[n] : n \in 1..Len(bake.commits)} = TablesPassed
          /\ Len(bake.commits) = Cardinality(TablesPassed))
    /\ [][TableCommit =>
            /\ bake.sentinel
            /\ bake.recs = 0
            /\ bake.inserted = bake.yielded
            /\ bake'.commits = Append(bake.commits, BakeTables[bake.table])]_vars
    /\ []((bake.pc \in {"done", "raised"} /\ bake.sentinel) =>
            bake.table > Len(BakeTables))

C31_CreateTablesOnEngine ==
    (tg_last.op = "create_tables(tables, engine)"
        /\ (tg_last.given \/ engine_rw # None)) =>
        /\ tg_last.result = "return"
        /\ tg_last.bind = IF tg_last.given THEN "engine" ELSE "engine_rw"
        /\ [n \in 1..Len(tg_last.stmts) |-> tg_last.stmts[n].tables[1]]
              = MissingTables(schemas, tg_last.pre_tables)
        /\ tg_last.given => db_tables = tg_last.pre_tables

\* C32: drop_tables() of a group that declares a table, called while no
\* read-write engine exists, fails with NoWriteAccessError, issues no statement
\* and drops no table, and the read-only engine stays in place, not disposed.
C32_NoWriteAccessError ==
    (tg_last.op = "drop_tables" /\ engine_rw = None /\ schemas # <<>>) =>
        /\ tg_last.result = "NoWriteAccessError"
        /\ tg_last.stmts = <<>>
        /\ db_tables = tg_last.pre_tables
        /\ engine_ro # None
        /\ Val(engine_ro) \notin disposed

\* ------------------------------------------- export of an empty table: claims
\* C33: when the maximum-id query returned no value, the export ends: no range
\* is queried, the sentinel is the one item put, and the consumer's loop ends
\* with no row yielded and goes on to commit.
C33_EmptyTableTerminates ==
    (ppc = "start" /\ max_id = None)
        ~> (cpc = "done" /\ yielded = {} /\ queries = <<>> /\ pushed = <<None>>)

\* ------------------------------------------------ sessions after a fork: claims
\* the process that created the engine session s is bound to
BoundIn(s) == creator[Val(sessions[s].bind)]

\* C34: a session handed out by Session(readonly) or by the default-session
\* helper is bound to an engine that the calling process created and that is
\* not disposed.
C34_SessionsOfThisProcess ==
    /\ (last.op = "Session" /\ last.session # None) =>
          /\ BoundIn(Val(last.session)) = pid
          /\ Val(sessions[Val(last.session)].bind) \notin disposed
    /\ (last.op = "wrapped" /\ last.used_default_session) =>
          /\ BoundIn(Val(last.session)) = pid
          /\ Val(sessions[Val(last.session)].bind) \notin disposed

\* ------------------------------------------------- the engine globals: claims
\* C35: engine_pid is None exactly when engine_ro is None; the engines held
\* were created by the process engine_pid names; a read-write engine exists
\* only with a read-write address; and a get_engines() call in the process that
\* holds its own engines returns the two instances held before the call.
C35_EngineGlobals ==
    /\ [](/\ (engine_pid = None) <=> (engine_ro = None)
          /\ \A e \in {engine_ro, engine_rw} \ {None} :
                 engine_pid # None /\ creator[Val(e)] = Val(engine_pid)
          /\ engine_rw # None => db_address_rw # None)
    /\ [][(last'.op = "get_engines" /\ engine_pid = Some(pid) /\ pid' = pid)
             => (/\ last'.result = <<engine_ro, engine_rw>>
                 /\ engine_ro' = engine_ro
                 /\ engine_rw' = engine_rw)]_vars

\* C35 witness: get_engines() was called in the process that holds its own
\* read-only and read-write engine, and returned the pair held
C35_Witness ==
    /\ last.op = "get_engines"
    /\ ~last.forked
    /\ engine_pid = Some(pid)
    /\ engine_rw # None
    /\ last.pre_ro = engine_ro
    /\ last.pre_rw = engine_rw
    /\ last.result = <<engine_ro, engine_rw>>

\* ------------------------------------------- a session of the caller: claims
\* what the wrapper does with the session of the caller: fn gets it, it holds
\* the transaction fn opened (no rollback), and the default session is neither
\* created nor rolled back
CallerSessionKept ==
    /\ ~last.used_default_session
    /\ last.session = last.given
    /\ Val(last.given) \in in_txn
    /\ ~last.created
    /\ last.rolled_back = None
    /\ last.result = IF last.raised THEN "raise" ELSE "return"

\* C36: whenever the caller of a decorated function passes its own session, the
\* wrapper uses that session, does not roll it back, and neither creates nor
\* rolls back the default session, whether fn returns or raises.
C36_CallerSession ==
    (last.op = "wrapped" /\ last.given # None) => CallerSessionKept

\* C36 (amended): the same, for a session passed as the keyword argument
\* `session`.
C36_CallerSessionByKeyword ==
    (last.op = "wrapped" /\ last.given # None /\ ~last.positional) => CallerSessionKept

\* C36 witness: fn raised with the session of the caller, passed by keyword,
\* while a default session exists that holds an open transaction
C36_Witness ==
    /\ last.op = "wrapped"
    /\ last.given # None
    /\ ~last.positional
    /\ last.raised
    /\ default_session # None
    /\ last.given # default_session

\* ------------------------------------------------ the frame of drop_jobs: claims
\* the rows of the tables of other modules
ForeignRows(rows) == {r \in rows : r.table \notin table_group(module)}

\* C37: job_records(job_ids) returns rows of the listed jobs only, and a
\* drop_jobs(job_ids) step adds no row, removes only rows of the module's tables
\* that belong to a listed job, and leaves the rows of every other job and the
\* rows of the tables of other modules as they are.
C37_DropFrame ==
    /\ [](\A ids \in SUBSET JobIds :
              \A r \in job_records(module, ids, db_rows) : r.expt \in ids)
    /\ [][(used' = used + 1 /\ last_drop' # None) =>
             /\ db_rows' \subseteq db_rows
             /\ \A r \in db_rows \ db_rows' :
                    r.table \in table_group(module)
                        /\ r.expt \in Val(last_drop').job_ids
             /\ \A j \in ModuleJobs \ Val(last_drop').job_ids :
                    RowsOf(db_rows', j) = RowsOf(db_rows, j)
             /\ ForeignRows(db_rows') = ForeignRows(db_rows)]_vars

\* C37 witness: a job that held rows was dropped while another job of the
\* module holds rows
C37_Witness ==
    /\ last_drop # None
    /\ Val(last_drop).wrote # {}
    /\ \E j \in ModuleJobs \ Val(last_drop).job_ids : RowsOf(db_rows, j) # {}

\* ------------------------------------- dependent_job_ids of no dependency: claims
\* C38: dependent_job_ids(other, job_ids) of experiment and of opto_experiment,
\* called with a module that is not among `dependencies`, raises ValueError,
\* having opened no session and returned nothing.
C38_NotADependencyIsValueError ==
    (dj # None /\ Val(dj).other \notin Dependencies(module)) =>
        /\ Val(dj).raised = "ValueError"
        /\ ~Val(dj).session_opened
        /\ Val(dj).ids = {}

\* ========================================================== pair_analysis_list
\* tools/pair_analysis_list.py: the script starts pair_analysis.py for the pair
\* ids it is given, as arguments or on stdin.  pal.argv counts the pair ids not
\* yet read, pal.procs lists the subprocesses the script tracks (by the number
\* of their launch), pal.running holds the subprocesses that have not ended.
\* Most pair ids given to one run.
MaxPairs == 4

\* `if len(procs) < 2`
ProcLimit == 2

\* the script was started with some pair ids (none: `-` and an empty stdin)
InitTool ==
    \E n \in 0..MaxPairs :
        pal = [pc |-> "loop", argv |-> n, procs |-> <<>>, running |-> {},
               launched |-> 0]

ToolFrame ==
    UNCHANGED <<exportVars, engineVars, tableVars, pipelineVars, workerVars,
                registryVars, bakeVars>>

\* get_next_pair(): None when no pair id is left, else the next one, which is
\* taken off the input
get_next_pair(argv) ==
    IF argv = 0 THEN [syn_id |-> None, argv |-> argv]
    ELSE [syn_id |-> Some(argv), argv |-> argv - 1]

\* a script that starts a subprocess whatever runs
LaunchAlways(procs) == TRUE

\* len(procs) < 2
CanLaunch(procs) == Len(procs) < ProcLimit

\* the head of the loop: with room for a subprocess the next pair id is read
\* and, if there is one, pair_analysis.py is started for it and tracked
PalLaunch ==
    /\ pal.pc = "loop"
    /\ IF CanLaunch(pal.procs)
         THEN LET nxt == get_next_pair(pal.argv) IN
              IF nxt.syn_id # None
                THEN pal' = [pal EXCEPT !.pc = "poll",
                                        !.argv = nxt.argv,
                                        !.launched = @ + 1,
                                        !.procs = Append(@, pal.launched + 1),
                                        !.running = @ \cup {pal.launched + 1}]
                ELSE pal' = [pal EXCEPT !.pc = "poll", !.argv = nxt.argv]
         ELSE pal' = [pal EXCEPT !.pc = "poll"]
    /\ ToolFrame

\* procs = [p for p in procs if p.poll() is None]
PalPoll ==
    /\ pal.pc = "poll"
    /\ pal' = [pal EXCEPT !.pc = "sleep",
                          !.procs = SelectSeq(@, LAMBDA p : p \in pal.running)]
    /\ ToolFrame

\* time.sleep(0.1), then `if len(procs) == 0: break`
PalSleep ==
    /\ pal.pc = "sleep"
    /\ pal' = [pal EXCEPT !.pc = IF Len(pal.procs) = 0 THEN "exit" ELSE "loop"]
    /\ ToolFrame

\* a pair_analysis.py subprocess ends, at any moment after its start
ProcEnds(p) ==
    /\ p \in pal.running
    /\ pal' = [pal EXCEPT !.running = @ \ {p}]
    /\ ToolFrame

NextTool ==
    \/ PalLaunch
    \/ PalPoll
    \/ PalSleep
    \/ \E p \in 1..MaxPairs : ProcEnds(p)

InitSpecTool ==
    /\ IdleExport /\ IdleEngine /\ IdleTables /\ IdlePipeline
    /\ IdleWorkers /\ IdleRegistry /\ IdleBake /\ InitTool

SpecTool == InitSpecTool /\ [][NextTool]_vars

\* --------------------------------------------- claims on pair_analysis_list
\* C39: the script leaves its loop only when every pair id was read and
\* started and no subprocess is running.
C39_EveryPairLaunched ==
    pal.pc = "exit" => (pal.argv = 0 /\ pal.running = {})

\* C40: at most 2 subprocesses run at any time, every running subprocess is
\* tracked, and a subprocess is started only in a step that begins with fewer
\* than 2 tracked.
C40_AtMostTwo ==
    /\ [](/\ Cardinality(pal.running) <= ProcLimit
          /\ pal.running \subseteq Elems(pal.procs)
          /\ Len(pal.procs) <= ProcLimit)
    /\ [][pal'.launched > pal.launched => Len(pal.procs) < ProcLimit]_vars

\* C40 witness: two subprocesses run, one of them started after an earlier one
\* had ended, and a pair id is still waiting
C40_Witness ==
    /\ Cardinality(pal.running) = ProcLimit
    /\ pal.launched > ProcLimit
    /\ pal.argv > 0
    /\ pal.pc = "loop"

====
